---------------------------- MODULE Spec2Model ----------------------------
(***************************************************************************)
(* Model of excel_tool/excel_comparator_india.py: the value normalizer,    *)
(* the tolerant comparator, the row key builders and the per-table         *)
(* reconciliation loop of compare_excel_with_gain_summary_inline_India.    *)
(*                                                                         *)
(* Cell values.  A cell is NaN (blank), a text (a sequence of one-char     *)
(* strings) or a float.  Floats are exact decimals m / 10^e kept in        *)
(* canonical form (no trailing fractional zero).                           *)
(***************************************************************************)
EXTENDS Integers, Sequences, FiniteSets, TLC

VARIABLES
    cfg,                \* sheets_config with both documents' sheets: Seq of tables
    pc,                 \* position in compare_excel_with_gain_summary_inline_India
    ti,                 \* index of the table the for loop is at
    loc,                \* the locals of the current loop iteration
    wb,                 \* output_wb.sheetnames, in creation order
    summary_rows,       \* summary_rows (without its constant header row 163)
    sheets_structured,  \* sheets_structured, in insertion order
    va, vb, vtol, veq   \* operands and result of a values_equal call

vars == <<cfg, pc, ti, loc, wb, summary_rows, sheets_structured, va, vb, vtol, veq>>

-----------------------------------------------------------------------------
(* Bounds of the model *)

MaxRows == 2        \* rows per dataset
MaxTotalRows == 3   \* rows of both datasets of a table together
MaxTables == 2      \* configured tables in a multi-table run
MaxAbs == 3         \* floats range over -MaxAbs.0 .. MaxAbs.0 in tenths
MaxTol == 2         \* tolerances range over 0 .. MaxTol
MaxLen == 4         \* characters of the texts offered to coerce_numeric
MaxParts == 2       \* max_parts of row_key ranges over 1 .. MaxParts

-----------------------------------------------------------------------------
(* Characters and texts *)

Digits == <<"0", "1", "2", "3", "4", "5", "6", "7", "8", "9">>

IsDigit(c) == \E i \in 1..Len(Digits) : Digits[i] = c

DigitVal(c) == (CHOOSE i \in 1..Len(Digits) : Digits[i] = c) - 1

\* str.lower(), on the letters the model's texts use
Lower(c) == CASE c = "A" -> "a" [] c = "B" -> "b" [] OTHER -> c

LowerText(s) == [i \in 1..Len(s) |-> Lower(s[i])]

IsSpace(c) == c = " "

RECURSIVE LStrip(_)
LStrip(s) == IF s # <<>> /\ IsSpace(Head(s)) THEN LStrip(Tail(s)) ELSE s

RECURSIVE RStrip(_)
RStrip(s) == IF s # <<>> /\ IsSpace(s[Len(s)]) THEN RStrip(SubSeq(s, 1, Len(s) - 1)) ELSE s

\* str.strip()
Strip(s) == RStrip(LStrip(s))

RECURSIVE Pow10(_)
Pow10(n) == IF n = 0 THEN 1 ELSE 10 * Pow10(n - 1)

RECURSIVE DigitsToNat(_)
DigitsToNat(s) == IF s = <<>> THEN 0 ELSE 10 * DigitsToNat(SubSeq(s, 1, Len(s) - 1)) + DigitVal(s[Len(s)])

RECURSIVE NatToChars(_)
NatToChars(n) == IF n < 10 THEN <<Digits[n + 1]>> ELSE NatToChars(n \div 10) \o <<Digits[(n % 10) + 1]>>

\* str(int)
IntToChars(n) == IF n < 0 THEN <<"-">> \o NatToChars(-n) ELSE NatToChars(n)

-----------------------------------------------------------------------------
(* Floats as exact decimals *)

RECURSIVE DecNorm(_, _)
DecNorm(m, e) ==
    IF m = 0 THEN [m |-> 0, e |-> 0]
    ELSE IF e > 0 /\ m % 10 = 0 THEN DecNorm(m \div 10, e - 1)
    ELSE [m |-> m, e |-> e]

Max(x, y) == IF x >= y THEN x ELSE y

Abs(x) == IF x < 0 THEN -x ELSE x

\* w - o
DecSub(w, o) ==
    LET e == Max(w.e, o.e)
    IN  DecNorm(w.m * Pow10(e - w.e) - o.m * Pow10(e - o.e), e)

\* int(float): truncation toward zero
DecTrunc(d) == IF d.m >= 0 THEN d.m \div Pow10(d.e) ELSE -((-d.m) \div Pow10(d.e))

\* zero-padded fractional digits of a float with e >= 1
FracChars(d) ==
    LET f == NatToChars(Abs(d.m) % Pow10(d.e))
    IN  [i \in 1..(d.e - Len(f)) |-> "0"] \o f

\* the decimal exponent of the first significant digit of a float other than 0
LeadExp(d) == Len(NatToChars(Abs(d.m))) - 1 - d.e

\* str(float) of a float below 1e-4 in magnitude: d[.ddd]e-XX
SciChars(d) ==
    LET ds == NatToChars(Abs(d.m))
        x  == NatToChars(-LeadExp(d))
    IN  <<Head(ds)>> \o (IF Len(ds) > 1 THEN <<".">> \o Tail(ds) ELSE <<>>)
        \o <<"e", "-">> \o (IF Len(x) < 2 THEN <<"0">> ELSE <<>>) \o x

\* str(float), for floats below 1e16 in magnitude
FloatToChars(d) ==
    (IF d.m < 0 THEN <<"-">> ELSE <<>>)
    \o (IF d.m # 0 /\ LeadExp(d) < -4 THEN SciChars(d)
        ELSE NatToChars(Abs(d.m) \div Pow10(d.e))
             \o <<".">>
             \o (IF d.e = 0 THEN <<"0">> ELSE FracChars(d)))

-----------------------------------------------------------------------------
(* Cells *)

NaN == [k |-> "nan", s |-> <<>>, m |-> 0, e |-> 0]

Str(s) == [k |-> "str", s |-> s, m |-> 0, e |-> 0]

Num(m, e) == [k |-> "num", s |-> <<>>, m |-> DecNorm(m, e).m, e |-> DecNorm(m, e).e]

DecOf(v) == [m |-> v.m, e |-> v.e]

None == [ok |-> FALSE, m |-> 0, e |-> 0]

Some(d) == [ok |-> TRUE, m |-> d.m, e |-> d.e]

\* str(value)
PyStr(v) == IF v.k = "num" THEN FloatToChars(DecOf(v)) ELSE v.s

\* float(s) for a text of digits, '.' and '-': None when Python raises ValueError
ParseFloat(s) ==
    LET neg   == s # <<>> /\ Head(s) = "-"
        body  == IF neg THEN Tail(s) ELSE s
        dots  == {i \in 1..Len(body) : body[i] = "."}
        dot   == IF dots = {} THEN Len(body) + 1 ELSE CHOOSE i \in dots : TRUE
        digs  == SelectSeq(body, IsDigit)
        valid == /\ \A i \in 1..Len(body) : body[i] # "-"
                 /\ Cardinality(dots) <= 1
                 /\ digs # <<>>
        frac  == IF dots = {} THEN 0 ELSE Len(body) - dot
        mag   == DigitsToNat(digs)
    IN  IF valid THEN Some(DecNorm(IF neg THEN -mag ELSE mag, frac)) ELSE None

NumericChar(c) == IsDigit(c) \/ c = "." \/ c = "-"

NotComma(c) == c # ","

\* a variant without the rewriting of a text in parentheses
coerce_numeric_unsigned(value) ==
    IF value.k = "nan" THEN None
    ELSE IF value.k = "num" THEN Some(DecOf(value))
    ELSE LET s0 == Strip(value.s)
             s2 == SelectSeq(s0, NotComma)
             s3 == SelectSeq(s2, NumericChar)
         IN  IF s0 = <<>> THEN None ELSE ParseFloat(s3)

coerce_numeric(value) ==
    IF value.k = "nan" THEN None
    ELSE IF value.k = "num" THEN Some(DecOf(value))
    ELSE LET s0 == Strip(value.s)
             s1 == IF s0 # <<>> /\ Head(s0) = "(" /\ s0[Len(s0)] = ")"
                   THEN <<"-">> \o SubSeq(s0, 2, Len(s0) - 1)
                   ELSE s0
             s2 == SelectSeq(s1, NotComma)
             s3 == SelectSeq(s2, NumericChar)
         IN  IF s0 = <<>> THEN None ELSE ParseFloat(s3)

NoInt == [ok |-> FALSE, v |-> 0]

\* round(float): rounding to the nearest integer, halves away from zero
DecRound(d) ==
    LET n == (2 * Abs(d.m) + Pow10(d.e)) \div (2 * Pow10(d.e))
    IN  IF d.m >= 0 THEN n ELSE -n

\* a variant that rounds where the code truncates
to_int_rounded(value) ==
    LET num == coerce_numeric(value)
    IN  IF ~num.ok THEN NoInt ELSE [ok |-> TRUE, v |-> DecRound(num)]

to_int_or_none(value) ==
    LET num == coerce_numeric(value)
    IN  IF ~num.ok THEN NoInt ELSE [ok |-> TRUE, v |-> DecTrunc(num)]

norm_text(value) == IF value.k = "nan" THEN <<>> ELSE Strip(PyStr(value))

\* a variant whose tolerance is exclusive
values_equal_below(orig_val, web_val, tol) ==
    LET oi == to_int_or_none(orig_val)
        wi == to_int_or_none(web_val)
    IN  IF oi.ok /\ wi.ok THEN Abs(wi.v - oi.v) < tol
        ELSE norm_text(orig_val) = norm_text(web_val)

\* a variant that never equates a value that is a number with one that is none
values_equal_or_unlike(orig_val, web_val, tol) ==
    LET oi == to_int_or_none(orig_val)
        wi == to_int_or_none(web_val)
    IN  IF oi.ok /\ wi.ok THEN Abs(wi.v - oi.v) <= tol
        ELSE IF oi.ok # wi.ok THEN FALSE
        ELSE norm_text(orig_val) = norm_text(web_val)

values_equal(orig_val, web_val, tol) ==
    LET oi == to_int_or_none(orig_val)
        wi == to_int_or_none(web_val)
    IN  IF oi.ok /\ wi.ok THEN Abs(wi.v - oi.v) <= tol
        ELSE norm_text(orig_val) = norm_text(web_val)

\* a variant that counts a column as differing beyond one more unit of tolerance
values_different_loose(orig_val, web_val, tol) == ~values_equal(orig_val, web_val, tol + 1)

values_different(orig_val, web_val, tol) == ~values_equal(orig_val, web_val, tol)

NUMERIC_TOLERANCE == 1

-----------------------------------------------------------------------------
(* Row keys.  A row is a function from column names to cells. *)

NumPart(iv) == [tag |-> "num", n |-> iv, s |-> <<>>]

StrPart(sv) == [tag |-> "str", n |-> 0, s |-> sv]

\* the loop of row_key from column position c on, with the parts collected so far
RECURSIVE RowKeyFrom(_, _, _, _, _)
RowKeyFrom(row, cols, c, key_parts, max_parts) ==
    IF c > Len(cols) THEN key_parts
    ELSE LET iv   == to_int_or_none(row[cols[c]])
             sv   == norm_text(row[cols[c]])
             next == IF iv.ok THEN Append(key_parts, NumPart(iv.v))
                     ELSE IF sv # <<>> THEN Append(key_parts, StrPart(LowerText(sv)))
                     ELSE key_parts
         IN  IF Len(next) >= max_parts THEN next
             ELSE RowKeyFrom(row, cols, c + 1, next, max_parts)

\* a variant that never stops before the last column
row_key_all(row, cols, max_parts) == RowKeyFrom(row, cols, 1, <<>>, Len(cols) + 1)

row_key(row, cols, max_parts) == RowKeyFrom(row, cols, 1, <<>>, max_parts)

\* web_key_index.get(k, []): the positions of the rows of df whose row_key is k
build_key_index(df, k, max_parts) ==
    SelectSeq([i \in 1..Len(df.rows) |-> i],
              LAMBDA i : row_key(df.rows[i].v, df.cols, max_parts) = k)

NoKey == [ok |-> FALSE, s |-> <<>>]

Key(s) == [ok |-> TRUE, s |-> s]

acct_key(v) ==
    IF v.k = "nan" THEN NoKey
    ELSE LET s   == Strip(PyStr(v))
             num == to_int_or_none(Str(s))
         IN  IF s = <<>> THEN NoKey
             ELSE IF num.ok THEN Key(IntToChars(num.v))
             ELSE Key(LowerText(s))

\* col.lower() == "account number" and "date" in col.lower(), on the model's columns
IsAccountCol(col) == col = "Account Number"

IsDateCol(col) == col = "Purchase Date"

AllDigits(s) == \A i \in 1..Len(s) : IsDigit(s[i])

\* pd.to_datetime(v, errors="coerce", dayfirst=True).date().isoformat() for the two
\* text layouts the model's date cells use, DD/MM/YYYY and YYYY-MM-DD (day and
\* month both 01..12); every other text is NaT
to_datetime(s) ==
    LET dmy == /\ Len(s) = 10 /\ s[3] = "/" /\ s[6] = "/"
               /\ AllDigits(SubSeq(s, 1, 2) \o SubSeq(s, 4, 5) \o SubSeq(s, 7, 10))
        iso == /\ Len(s) = 10 /\ s[5] = "-" /\ s[8] = "-"
               /\ AllDigits(SubSeq(s, 1, 4) \o SubSeq(s, 6, 7) \o SubSeq(s, 9, 10))
    IN  IF dmy THEN Key(SubSeq(s, 7, 10) \o <<"-">> \o SubSeq(s, 4, 5) \o <<"-">> \o SubSeq(s, 1, 2))
        ELSE IF iso THEN Key(s)
        ELSE NoKey

\* one part of the composite key; NoKey when the cell is missing or blank
CompositePart(row, col) ==
    LET v == row[col]
        s == Strip(PyStr(v))
        num == to_int_or_none(v)
        ts == to_datetime(s)
    IN  IF v.k = "nan" \/ s = <<>> THEN NoKey
        ELSE IF IsAccountCol(col) THEN Key(IF num.ok THEN IntToChars(num.v) ELSE LowerText(s))
        ELSE IF IsDateCol(col) THEN Key(IF ts.ok THEN ts.s ELSE LowerText(s))
        ELSE Key(LowerText(s))

RECURSIVE JoinParts(_)
JoinParts(parts) ==
    IF Len(parts) = 1 THEN parts[1]
    ELSE parts[1] \o <<"|">> \o JoinParts(Tail(parts))

composite_acct_key(row, key_cols) ==
    LET parts == [c \in 1..Len(key_cols) |-> CompositePart(row, key_cols[c])]
    IN  IF \E c \in 1..Len(key_cols) : ~parts[c].ok THEN NoKey
        ELSE Key(JoinParts([c \in 1..Len(key_cols) |-> parts[c].s]))

-----------------------------------------------------------------------------
(* Output cells and rows.  An output cell is a cell; a marker such as       *)
(* "Only in Original" or a header is a text kept as one piece.              *)

Empty == Str(<<>>)

Marker(l) == Str(<<l>>)

norm_for_json(v) == IF v.k = "nan" THEN Empty ELSE v

\* the flat list built by extending a row with f[1], f[2], ..: three cells per column
Flat3(f, n) == [p \in 1..(3 * n) |-> f[((p - 1) \div 3) + 1][((p - 1) % 3) + 1]]

TripledHeaders(cols) ==
    Flat3([c \in 1..Len(cols) |-> <<Str(<<cols[c], " (Original)">>),
                                     Str(<<cols[c], " (Website)">>),
                                     Str(<<cols[c], " (Diff)">>)>>], Len(cols))

SimpleHeaders(cols) == [c \in 1..Len(cols) |-> Str(<<cols[c]>>)] \o <<Marker("Row Status")>>

\* a variant that looks at the first common column alone
all_same_first(orig_row, web_row, cols) ==
    values_equal(orig_row[cols[1]], web_row[cols[1]], NUMERIC_TOLERANCE)

all_same(orig_row, web_row, cols) ==
    \A c \in 1..Len(cols) : values_equal(orig_row[cols[c]], web_row[cols[c]], NUMERIC_TOLERANCE)

\* a variant that subtracts the other way round
diff_val_reversed(o_val, w_val) ==
    LET o_num == coerce_numeric(o_val)
        w_num == coerce_numeric(w_val)
    IN  IF ~values_different(o_val, w_val, NUMERIC_TOLERANCE) THEN Empty
        ELSE IF o_num.ok /\ w_num.ok THEN Num(DecSub(o_num, w_num).m, DecSub(o_num, w_num).e)
        ELSE Marker("DIFF")

\* diff_val of one column of a matched pair
diff_val(o_val, w_val) ==
    LET o_num == coerce_numeric(o_val)
        w_num == coerce_numeric(w_val)
    IN  IF ~values_different(o_val, w_val, NUMERIC_TOLERANCE) THEN Empty
        ELSE IF o_num.ok /\ w_num.ok THEN Num(DecSub(w_num, o_num).m, DecSub(w_num, o_num).e)
        ELSE Marker("DIFF")

row_diffs_here(orig_row, web_row, cols) ==
    Cardinality({c \in 1..Len(cols) :
                    values_different(orig_row[cols[c]], web_row[cols[c]], NUMERIC_TOLERANCE)})

RowVals(row, cols) == [c \in 1..Len(cols) |-> norm_for_json(row[cols[c]])]

OnlyOrigRow(tripled, orig_row, cols) ==
    IF tripled
    THEN Flat3([c \in 1..Len(cols) |->
                  <<norm_for_json(orig_row[cols[c]]), Empty, Marker("Only in Original")>>], Len(cols))
    ELSE RowVals(orig_row, cols) \o <<Marker("Only in Original")>>

CommonRow(tripled, orig_row, cols) ==
    IF tripled
    THEN Flat3([c \in 1..Len(cols) |->
                  <<norm_for_json(orig_row[cols[c]]), norm_for_json(orig_row[cols[c]]), Empty>>], Len(cols))
    ELSE RowVals(orig_row, cols) \o <<Marker("Common")>>

DiffRow(tripled, orig_row, web_row, cols) ==
    IF tripled
    THEN Flat3([c \in 1..Len(cols) |->
                  <<norm_for_json(orig_row[cols[c]]), norm_for_json(web_row[cols[c]]),
                    norm_for_json(diff_val(orig_row[cols[c]], web_row[cols[c]]))>>], Len(cols))
    ELSE RowVals(orig_row, cols) \o <<Marker("Different")>>

OnlyWebRow(tripled, web_row, cols) ==
    IF tripled
    THEN Flat3([c \in 1..Len(cols) |->
                  <<Empty, norm_for_json(web_row[cols[c]]), Marker("Only in Website")>>], Len(cols))
    ELSE RowVals(web_row, cols) \o <<Marker("Only in Website")>>

-----------------------------------------------------------------------------
(* Sheet titles of the output workbook.  A title is the text n, followed by  *)
(* " " and l when l is not empty, followed by " (x)" when x > 0.             *)

Title(n, l, x) == [n |-> n, l |-> l, x |-> x]

LongA == "consolidated_portfolio_statement_2023"

LongB == "consolidated_portfolio_statement_2024"

LongNames == {LongA, LongB}

\* title[:max_len], max_len = 31: the model's other names fit with every label
\* the code appends to them or stay distinct when cut
TitleBase(name, label) ==
    IF name \in LongNames THEN Title("consolidated_portfolio_statemen", "", 0)
    ELSE Title(name, label, 0)

RECURSIVE SafeFrom(_, _, _)
SafeFrom(base, names, i) ==
    IF \E p \in 1..Len(names) : names[p] = [base EXCEPT !.x = i]
    THEN SafeFrom(base, names, i + 1)
    ELSE [base EXCEPT !.x = i]

make_safe_title(name, label, names) == SafeFrom(TitleBase(name, label), names, 0)

\* openpyxl refuses a title holding one of \ * ? : / [ ]
ValidTitle(name) == name # "Bad/Name"

-----------------------------------------------------------------------------
(* One table.  A table of cfg holds the sheet of both documents:            *)
(* [name, readable, colsA, rowsA, colsB, rowsB], readable telling whether   *)
(* both documents hold a sheet of that name that pd.read_excel can parse.   *)
(* A data frame is [cols, rows], each row [idx, v]: v the cells by column   *)
(* and idx the row's position in the sheet as read (kept to tell rows       *)
(* apart; the code does not keep it).                                       *)

read_excel(cols, rows) ==
    [cols |-> cols, rows |-> [i \in 1..Len(rows) |-> [idx |-> i, v |-> rows[i]]]]

InSeq(x, s) == \E p \in 1..Len(s) : s[p] = x

NotSlNo(c) == c # "Sl. No."

KnownSheets == {"Gain Summary", "ScheduleFA", "transaction_details", "transaction_details_by_gain"}

common_cols(t) ==
    LET cc == SelectSeq(t.colsA, LAMBDA c : InSeq(c, t.colsB))
    IN  IF t.name \in KnownSheets \ {"Gain Summary"} THEN SelectSeq(cc, NotSlNo) ELSE cc

preferred_keys == <<"Account Number", "Investment Name", "Purchase Date">>

use_composite(cols) == \A k \in 1..Len(preferred_keys) : InSeq(preferred_keys[k], cols)

\* a variant that never selects the composite key
key_cols_single(cols) == <<"Account Number">>

key_cols(cols) == IF use_composite(cols) THEN preferred_keys ELSE <<"Account Number">>

\* df.drop_duplicates(subset=kc, keep="first").reset_index(drop=True)
drop_duplicates(df, kc) ==
    LET same(r1, r2) == \A k \in 1..Len(kc) : r1.v[kc[k]] = r2.v[kc[k]]
        keep == SelectSeq([i \in 1..Len(df.rows) |-> i],
                          LAMBDA i : \A j \in 1..(i - 1) : ~same(df.rows[j], df.rows[i]))
    IN  [cols |-> df.cols, rows |-> [p \in 1..Len(keep) |-> df.rows[keep[p]]]]

\* the key the map-match path gives a row
MapKey(row, kc) ==
    IF kc = <<"Account Number">> THEN acct_key(row["Account Number"])
    ELSE composite_acct_key(row, kc)

MapHas(map, k) == \E p \in 1..Len(map) : map[p].k = k

MapGet(map, k) == map[CHOOSE p \in 1..Len(map) : map[p].k = k].i

\* orig_map / web_map after the rows from position i on have been offered: a dict,
\* kept as its items [k, i] in insertion order
RECURSIVE BuildMapFrom(_, _, _, _)
BuildMapFrom(df, kc, i, map) ==
    IF i > Len(df.rows) THEN map
    ELSE LET k == MapKey(df.rows[i].v, kc)
         IN  BuildMapFrom(df, kc, i + 1,
                 IF k.ok /\ ~MapHas(map, k.s) THEN Append(map, [k |-> k.s, i |-> i]) ELSE map)

\* a variant in which a later row with a key replaces the earlier one
RECURSIVE BuildMapLastFrom(_, _, _, _)
BuildMapLastFrom(df, kc, i, map) ==
    IF i > Len(df.rows) THEN map
    ELSE LET k == MapKey(df.rows[i].v, kc)
         IN  BuildMapLastFrom(df, kc, i + 1,
                 IF ~k.ok THEN map
                 ELSE IF MapHas(map, k.s)
                      THEN [q \in 1..Len(map) |-> IF map[q].k = k.s THEN [k |-> k.s, i |-> i] ELSE map[q]]
                      ELSE Append(map, [k |-> k.s, i |-> i]))

build_map_last(df, kc) == BuildMapLastFrom(df, kc, 1, <<>>)

build_map(df, kc) == BuildMapFrom(df, kc, 1, <<>>)

NoTitle == Title("", "", 0)

NoProv == [common |-> <<>>, diff |-> <<>>, only_orig |-> <<>>, only_web |-> <<>>]

EmptyDf == [cols |-> <<>>, rows |-> <<>>]

EmptyLoc ==
    [path |-> "none", common_cols |-> <<>>, df_orig |-> EmptyDf, df_web |-> EmptyDf,
     orig_map |-> <<>>, web_map |-> <<>>,
     structured_common |-> <<>>, structured_diff |-> <<>>,
     structured_only_orig |-> <<>>, structured_only_web |-> <<>>,
     prov |-> NoProv, diff_count |-> 0, rows_compared |-> 0,
     main_title |-> NoTitle, i |-> 1, j |-> 1]

\* which of the three matching paths lines 301, 322 and 407 select
PathOf(name, cols) ==
    IF name \in KnownSheets /\ InSeq("Account Number", cols)
    THEN (IF name = "Gain Summary" THEN "gain" ELSE "map")
    ELSE "general"

\* the locals when the first row loop of a table with common columns starts
\* (lines 226-229, 245-255, then the headers, the key columns, the dedup and the maps)
StartLoc(t, names) ==
    LET cc    == common_cols(t)
        path  == PathOf(t.name, cc)
        raw_o == [cols |-> cc, rows |-> read_excel(t.colsA, t.rowsA).rows]
        raw_w == [cols |-> cc, rows |-> read_excel(t.colsB, t.rowsB).rows]
        kc    == key_cols(cc)
        dfo   == IF path = "general" THEN raw_o ELSE drop_duplicates(raw_o, kc)
        dfw   == IF path = "general" THEN raw_w ELSE drop_duplicates(raw_w, kc)
        hdr   == IF path = "general" THEN SimpleHeaders(cc) ELSE TripledHeaders(cc)
    IN  [path |-> path, common_cols |-> cc, df_orig |-> dfo, df_web |-> dfw,
         orig_map |-> IF path = "map" THEN build_map(dfo, kc) ELSE <<>>,
         web_map |-> IF path = "map" THEN build_map(dfw, kc) ELSE <<>>,
         structured_common |-> <<hdr>>, structured_diff |-> <<hdr>>,
         structured_only_orig |-> <<hdr>>, structured_only_web |-> <<hdr>>,
         prov |-> NoProv, diff_count |-> 0, rows_compared |-> 0,
         main_title |-> make_safe_title(t.name, "", names), i |-> 1, j |-> 1]

\* the items the first loop iterates: the rows of df_orig, or the keys of orig_map
OrigItems(L) == IF L.path = "map" THEN Len(L.orig_map) ELSE Len(L.df_orig.rows)

WebItems(L) == IF L.path = "map" THEN Len(L.web_map) ELSE Len(L.df_web.rows)

\* where the table's pass is: in the loop over A, in the loop over B, or past both
Phase(L) ==
    IF L.i <= OrigItems(L) THEN "orig"
    ELSE IF L.j <= WebItems(L) THEN "web"
    ELSE "finish"

\* the row of df_orig at position a has no partner (lines 332-343, 434-446, 524-533)
EmitOnlyOrig(L, a) ==
    [L EXCEPT !.structured_only_orig =
                  Append(@, OnlyOrigRow(L.path # "general", L.df_orig.rows[a].v, L.common_cols)),
              !.prov.only_orig = Append(@, [a |-> L.df_orig.rows[a].idx, b |-> 0]),
              !.rows_compared = @ + 1,
              !.diff_count = @ + 1,
              !.i = @ + 1]

\* a variant that counts the agreeing pair among the rows compared
EmitCommonCounted(L, a, b) ==
    [L EXCEPT !.structured_common =
                  Append(@, CommonRow(L.path # "general", L.df_orig.rows[a].v, L.common_cols)),
              !.prov.common = Append(@, [a |-> L.df_orig.rows[a].idx, b |-> L.df_web.rows[b].idx]),
              !.rows_compared = @ + 1,
              !.i = @ + 1]

\* the rows at a of df_orig and b of df_web agree in every column
\* (lines 347-357, 451-461, 536-542)
EmitCommon(L, a, b) ==
    [L EXCEPT !.structured_common =
                  Append(@, CommonRow(L.path # "general", L.df_orig.rows[a].v, L.common_cols)),
              !.prov.common = Append(@, [a |-> L.df_orig.rows[a].idx, b |-> L.df_web.rows[b].idx]),
              !.i = @ + 1]

\* a variant that counts one difference per differing row
EmitDiffOne(L, a, b) ==
    [L EXCEPT !.structured_diff =
                  Append(@, DiffRow(L.path # "general", L.df_orig.rows[a].v,
                                    L.df_web.rows[b].v, L.common_cols)),
              !.prov.diff = Append(@, [a |-> L.df_orig.rows[a].idx, b |-> L.df_web.rows[b].idx]),
              !.rows_compared = @ + 1,
              !.diff_count = @ + 1,
              !.i = @ + 1]

\* the rows at a of df_orig and b of df_web differ (lines 359-388, 463-492, 544-561)
EmitDiff(L, a, b) ==
    [L EXCEPT !.structured_diff =
                  Append(@, DiffRow(L.path # "general", L.df_orig.rows[a].v,
                                    L.df_web.rows[b].v, L.common_cols)),
              !.prov.diff = Append(@, [a |-> L.df_orig.rows[a].idx, b |-> L.df_web.rows[b].idx]),
              !.rows_compared = @ + 1,
              !.diff_count = @ + row_diffs_here(L.df_orig.rows[a].v, L.df_web.rows[b].v, L.common_cols),
              !.i = @ + 1]

\* one iteration of the loop over A, with the row of df_orig at position a and its
\* partner at position b of df_web (0: none)
Classify(L, a, b) ==
    IF b = 0 THEN EmitOnlyOrig(L, a)
    ELSE IF all_same(L.df_orig.rows[a].v, L.df_web.rows[b].v, L.common_cols) THEN EmitCommon(L, a, b)
    ELSE EmitDiff(L, a, b)

\* match_idx of the row of df_orig at position a: the first row of df_web with its key
match_idx(L, a) ==
    LET k == row_key(L.df_orig.rows[a].v, L.common_cols, 2)
        match_indices == build_key_index(L.df_web, k, 2)
    IN  IF match_indices # <<>> THEN match_indices[1] ELSE 0

OrigStep(L) ==
    IF L.path = "map"
    THEN LET acc == L.orig_map[L.i]
         IN  Classify(L, acc.i, IF MapHas(L.web_map, acc.k) THEN MapGet(L.web_map, acc.k) ELSE 0)
    ELSE Classify(L, L.i, match_idx(L, L.i))

\* k in orig_keys_set, for the row of df_web at position b
InOrigKeys(L, b) ==
    \E a \in 1..Len(L.df_orig.rows) :
        row_key(L.df_orig.rows[a].v, L.common_cols, 2) = row_key(L.df_web.rows[b].v, L.common_cols, 2)

\* a variant that puts the row before the rows already in the bucket
EmitOnlyWebFirst(L, b) ==
    [L EXCEPT !.structured_only_web =
                  <<Head(@)>> \o <<OnlyWebRow(L.path # "general", L.df_web.rows[b].v, L.common_cols)>> \o Tail(@),
              !.prov.only_web = <<[a |-> 0, b |-> L.df_web.rows[b].idx]>> \o @,
              !.rows_compared = @ + 1,
              !.diff_count = @ + 1,
              !.j = @ + 1]

EmitOnlyWeb(L, b) ==
    [L EXCEPT !.structured_only_web = Append(@, OnlyWebRow(L.path # "general", L.df_web.rows[b].v, L.common_cols)),
              !.prov.only_web = Append(@, [a |-> 0, b |-> L.df_web.rows[b].idx]),
              !.rows_compared = @ + 1,
              !.diff_count = @ + 1,
              !.j = @ + 1]

\* a variant that never skips a row of B
WebStepNoSkip(L) ==
    IF L.path = "map" THEN EmitOnlyWeb(L, L.web_map[L.j].i) ELSE EmitOnlyWeb(L, L.j)

WebStep(L) ==
    IF L.path = "map"
    THEN LET acc == L.web_map[L.j]
         IN  IF MapHas(L.orig_map, acc.k) THEN [L EXCEPT !.j = @ + 1] ELSE EmitOnlyWeb(L, acc.i)
    ELSE IF InOrigKeys(L, L.j) THEN [L EXCEPT !.j = @ + 1] ELSE EmitOnlyWeb(L, L.j)

-----------------------------------------------------------------------------
(* Entries of sheets_structured and rows of summary_rows.  error tells     *)
(* whether the entry has the "error" key (the row: whether its third cell   *)
(* is the "ERROR: ..." text), has_main whether it has "_main_ws_name";     *)
(* prov is not part of the code's entry: it names, bucket by bucket, the    *)
(* sheet rows each output row was made of.                                  *)

\* a variant whose row counter runs on from the table recorded before
EntryRunningOn(name, L) ==
    [name |-> name,
     common_rows |-> L.structured_common, different_rows |-> L.structured_diff,
     only_in_original_rows |-> L.structured_only_orig,
     only_in_website_rows |-> L.structured_only_web,
     rows_compared |-> L.rows_compared
                       + (IF sheets_structured = <<>> THEN 0
                          ELSE sheets_structured[Len(sheets_structured)].rows_compared),
     cells_different |-> L.diff_count,
     has_main |-> TRUE, main_ws_name |-> L.main_title, error |-> FALSE, prov |-> L.prov]

Entry(name, L) ==
    [name |-> name,
     common_rows |-> L.structured_common, different_rows |-> L.structured_diff,
     only_in_original_rows |-> L.structured_only_orig,
     only_in_website_rows |-> L.structured_only_web,
     rows_compared |-> L.rows_compared, cells_different |-> L.diff_count,
     has_main |-> TRUE, main_ws_name |-> L.main_title, error |-> FALSE, prov |-> L.prov]

BlankEntry(name, error) ==
    [name |-> name,
     common_rows |-> <<>>, different_rows |-> <<>>,
     only_in_original_rows |-> <<>>, only_in_website_rows |-> <<>>,
     rows_compared |-> 0, cells_different |-> 0,
     has_main |-> FALSE, main_ws_name |-> NoTitle, error |-> error, prov |-> NoProv]

\* a variant that treats the absence of common columns as a failure
NoCommonAsError(name) == BlankEntry(name, TRUE)

NoCommonEntry(name) == BlankEntry(name, FALSE)

ErrorEntry(name) == BlankEntry(name, TRUE)

SummaryRow(name, L) ==
    [sheet |-> name, rows_compared |-> L.rows_compared, cells_different |-> L.diff_count,
     error |-> FALSE, common |-> Len(L.structured_common),
     only_orig |-> Len(L.structured_only_orig), only_web |-> Len(L.structured_only_web)]

ZeroSummaryRow(name, error) ==
    [sheet |-> name, rows_compared |-> 0, cells_different |-> 0,
     error |-> error, common |-> 0, only_orig |-> 0, only_web |-> 0]

\* the two sheets the branch without common columns creates
NoCommonSheets(name, names) ==
    LET n1 == Append(names, make_safe_title(name, "", names))
    IN  Append(n1, make_safe_title(name, "Common Rows", n1))

\* the sheets the loop after the tables creates for one entry; raised when
\* create_sheet refuses the title
CategorySheets(e, names) ==
    LET n1 == IF Len(e.different_rows) > 0
              THEN Append(names, make_safe_title(e.name, "Different Rows", names)) ELSE names
        n2 == IF Len(e.only_in_original_rows) > 0
              THEN Append(n1, make_safe_title(e.name, "Only in Original", n1)) ELSE n1
    IN  IF Len(e.only_in_website_rows) > 0
        THEN Append(n2, make_safe_title(e.name, "Only in Website", n2)) ELSE n2

PostEntry(e, names) ==
    LET n1 == IF Len(e.common_rows) > 1
              THEN Append(names, make_safe_title(e.name, "Common Rows", names)) ELSE names
        n2 == IF e.name \in {"transaction_details", "transaction_details_by_gain"}
              THEN CategorySheets(e, n1) ELSE n1
    IN  IF e.has_main /\ InSeq(e.main_ws_name, n2) THEN [raised |-> FALSE, names |-> n2]
        ELSE IF ~ValidTitle(e.name) THEN [raised |-> TRUE, names |-> n2]
        ELSE [raised |-> FALSE, names |-> Append(n2, make_safe_title(e.name, "", n2))]

RECURSIVE PostFrom(_, _, _)
PostFrom(entries, p, names) ==
    IF p > Len(entries) THEN [raised |-> FALSE, names |-> names]
    ELSE LET r == PostEntry(entries[p], names)
         IN  IF r.raised THEN r ELSE PostFrom(entries, p + 1, r.names)

-----------------------------------------------------------------------------
(* compare_excel_with_gain_summary_inline_India *)

NoCall == [done |-> FALSE, r |-> FALSE]

Idle == va = NaN /\ vb = NaN /\ vtol = 0 /\ veq = NoCall

\* lines 157-158: load_workbook raises on a document that is no workbook
LoadWorkbooks ==
    /\ pc = "load"
    /\ \E opened \in BOOLEAN : pc' = IF opened THEN "read" ELSE "raised"
    /\ UNCHANGED <<cfg, ti, loc, wb, summary_rows, sheets_structured, va, vb, vtol, veq>>

\* a variant that records what the table had classified when it failed
ExceptBranchPartial ==
    /\ summary_rows' = Append(summary_rows, ZeroSummaryRow(cfg[ti].name, TRUE))
    /\ sheets_structured' = Append(sheets_structured,
                                   IF pc = "read" THEN ErrorEntry(cfg[ti].name)
                                   ELSE [Entry(cfg[ti].name, loc) EXCEPT !.error = TRUE])
    /\ ti' = ti + 1
    /\ pc' = "read"

\* lines 600-611
ExceptBranch ==
    /\ summary_rows' = Append(summary_rows, ZeroSummaryRow(cfg[ti].name, TRUE))
    /\ sheets_structured' = Append(sheets_structured, ErrorEntry(cfg[ti].name))
    /\ ti' = ti + 1
    /\ pc' = "read"

\* lines 215-216 raise: the sheet is missing from a document or cannot be parsed
ReadFails ==
    /\ pc = "read" /\ ti <= Len(cfg)
    /\ ~cfg[ti].readable
    /\ ExceptBranch
    /\ UNCHANGED <<cfg, loc, wb, va, vb, vtol, veq>>

\* lines 215-324 and 407-428, or 215-243 when there are no common columns
ReadTable ==
    /\ pc = "read" /\ ti <= Len(cfg)
    /\ cfg[ti].readable
    /\ IF common_cols(cfg[ti]) = <<>>
       THEN /\ wb' = NoCommonSheets(cfg[ti].name, wb)
            /\ summary_rows' = Append(summary_rows, ZeroSummaryRow(cfg[ti].name, FALSE))
            /\ sheets_structured' = Append(sheets_structured, NoCommonEntry(cfg[ti].name))
            /\ ti' = ti + 1
            /\ UNCHANGED <<pc, loc>>
       ELSE /\ loc' = StartLoc(cfg[ti], wb)
            /\ wb' = Append(wb, loc'.main_title)
            /\ pc' = Phase(loc')
            /\ UNCHANGED <<ti, summary_rows, sheets_structured>>
    /\ UNCHANGED <<cfg, va, vb, vtol, veq>>

\* one iteration of the loop over A (lines 327-388, 431-492, 519-561)
OrigRow ==
    /\ pc = "orig"
    /\ loc' = OrigStep(loc)
    /\ pc' = Phase(loc')
    /\ UNCHANGED <<cfg, ti, wb, summary_rows, sheets_structured, va, vb, vtol, veq>>

\* one iteration of the loop over B (lines 390-405, 494-509, 563-574)
WebRow ==
    /\ pc = "web"
    /\ loc' = WebStep(loc)
    /\ pc' = Phase(loc')
    /\ UNCHANGED <<cfg, ti, wb, summary_rows, sheets_structured, va, vb, vtol, veq>>

\* a statement of the try block raises after the table's sheet was created
TableRaise ==
    /\ pc \in {"orig", "web", "finish"}
    /\ ExceptBranch
    /\ UNCHANGED <<cfg, loc, wb, va, vb, vtol, veq>>

\* lines 576-598
FinishTable ==
    /\ pc = "finish"
    /\ sheets_structured' = Append(sheets_structured, Entry(cfg[ti].name, loc))
    /\ summary_rows' = Append(summary_rows, SummaryRow(cfg[ti].name, loc))
    /\ ti' = ti + 1
    /\ pc' = "read"
    /\ UNCHANGED <<cfg, loc, wb, va, vb, vtol, veq>>

\* lines 613-707: the sheets of the output workbook, the Summary sheet, the return
PostProcess ==
    /\ pc = "read" /\ ti > Len(cfg)
    /\ LET r == PostFrom(sheets_structured, 1, wb)
       IN  IF r.raised
           THEN pc' = "raised" /\ wb' = r.names
           ELSE pc' = "done" /\ wb' = <<make_safe_title("Summary", "", r.names)>> \o r.names
    /\ UNCHANGED <<cfg, ti, loc, summary_rows, sheets_structured, va, vb, vtol, veq>>

Next ==
    \/ LoadWorkbooks
    \/ ReadFails
    \/ ReadTable
    \/ OrigRow
    \/ WebRow
    \/ TableRaise
    \/ FinishTable
    \/ PostProcess

-----------------------------------------------------------------------------
(* The inputs: the sheets of the two documents and sheets_config *)

T5 == Str(<<"5">>)
T7 == Str(<<"7">>)
Tab == Str(<<"a", "b">>)
TAB == Str(<<"A", "B">>)
T100 == Str(<<"1", "0", "0">>)
T200 == Str(<<"2", "0", "0">>)
T1000 == Str(<<"1", ",", "0", "0", "0">>)
T999 == Str(<<"9", "9", "9">>)
T998 == Str(<<"9", "9", "8">>)
D1Feb == Str(<<"0", "1", "/", "0", "2", "/", "2", "0", "2", "4">>)
D1FebIso == Str(<<"2", "0", "2", "4", "-", "0", "2", "-", "0", "1">>)
D2Jan == Str(<<"0", "2", "/", "0", "1", "/", "2", "0", "2", "4">>)

GenericCols == <<"ID", "Tag">>
AcctCols == <<"Account Number", "Amount">>
AcctTagCols == <<"Account Number", "Tag">>
CompCols == <<"Account Number", "Investment Name", "Purchase Date">>

\* the cells a column of the model's sheets may hold
ColValues(col) ==
    CASE col = "ID" -> {T5, T7, NaN}
      [] col = "Tag" -> {Tab, TAB}
      [] col = "Account Number" -> {T100, T200, NaN}
      [] col = "Amount" -> {T1000, T999, T998}
      [] col = "Investment Name" -> {Tab, TAB}
      [] col = "Purchase Date" -> {D1Feb, D1FebIso, NaN}
      [] OTHER -> {NaN}

ColSet(cols) == {cols[c] : c \in 1..Len(cols)}

\* the rows of a sheet with the columns cols.  To keep the runs small: the sheets
\* with an Amount hold one row without account, those with a Tag the accounts
\* "100" and blank, and the composite sheets the account "100" alone
RowsOver(cols) ==
    {r \in [ColSet(cols) -> UNION {ColValues(c) : c \in ColSet(cols)}] :
        /\ \A c \in ColSet(cols) : r[c] \in ColValues(c)
        /\ cols = AcctCols => (r["Account Number"] = NaN => r["Amount"] = T999)
        /\ cols = AcctTagCols => r["Account Number"] # T200
        /\ cols = CompCols => r["Account Number"] = T100}

SeqsOfLen(S, n) == [1..n -> S]

\* the sheets whose rows range over every dataset within the bounds
RichSheets ==
    { [name |-> "Other", cols |-> GenericCols],
      [name |-> "Gain Summary", cols |-> AcctTagCols],
      [name |-> "Gain Summary", cols |-> CompCols],
      [name |-> "ScheduleFA", cols |-> AcctCols],
      [name |-> "ScheduleFA", cols |-> CompCols] }

RowCounts == {n \in (0..MaxRows) \X (0..MaxRows) : n[1] + n[2] <= MaxTotalRows}

Row2(c1, v1, c2, v2) == (c1 :> v1) @@ (c2 :> v2)

\* a sheet named by a title openpyxl refuses is in no workbook it loads
Table(name, colsA, rowsA, colsB, rowsB) ==
    [name |-> name, readable |-> ValidTitle(name),
     colsA |-> colsA, rowsA |-> rowsA, colsB |-> colsB, rowsB |-> rowsB]

Unreadable(t) == [t EXCEPT !.readable = FALSE]

\* the tables of the runs over several tables
SmallTables ==
    { Table("Gain Summary", AcctCols, <<Row2("Account Number", T100, "Amount", T1000)>>,
                            AcctCols, <<Row2("Account Number", T100, "Amount", T998)>>),
      Table("ScheduleFA", <<"Sl. No.", "ID">>, <<Row2("Sl. No.", NaN, "ID", T5)>>,
                          <<"Sl. No.", "Tag">>, <<Row2("Sl. No.", NaN, "Tag", Tab)>>),
      Table("transaction_details", AcctCols, <<Row2("Account Number", T100, "Amount", T999)>>,
                                   AcctCols, <<Row2("Account Number", T200, "Amount", T999)>>),
      Table("Other", <<"ID">>, <<("ID" :> T5)>>, <<"Tag">>, <<("Tag" :> Tab)>>),
      Table("Other Sheet", GenericCols, <<Row2("ID", T5, "Tag", Tab)>>,
                           GenericCols, <<Row2("ID", T5, "Tag", Tab)>>),
      Table(LongA, GenericCols, <<Row2("ID", T5, "Tag", Tab)>>,
                   GenericCols, <<Row2("ID", T5, "Tag", TAB)>>),
      Table(LongB, GenericCols, <<Row2("ID", T7, "Tag", Tab)>>, GenericCols, <<>>),
      Unreadable(Table("Missing", GenericCols, <<>>, GenericCols, <<>>)),
      Table("Bad/Name", GenericCols, <<>>, GenericCols, <<>>) }

DistinctNames(c) == \A p, q \in 1..Len(c) : p # q => c[p].name # c[q].name

Init ==
    /\ \/ \E s \in RichSheets : \E n \in RowCounts :
            \E ra \in SeqsOfLen(RowsOver(s.cols), n[1]), rb \in SeqsOfLen(RowsOver(s.cols), n[2]) :
                cfg = <<Table(s.name, s.cols, ra, s.cols, rb)>>
       \/ \E n \in 0..MaxTables : \E c \in SeqsOfLen(SmallTables, n) :
            DistinctNames(c) /\ cfg = c
    /\ pc = "load"
    /\ ti = 1
    /\ loc = EmptyLoc
    /\ wb = <<>>
    /\ summary_rows = <<>>
    /\ sheets_structured = <<>>
    /\ Idle

Spec == Init /\ [][Next]_vars

-----------------------------------------------------------------------------
(* values_equal on floats *)

Floats == {Num(m, 1) : m \in (-10 * MaxAbs)..(10 * MaxAbs)}

InitVal ==
    /\ cfg = <<>> /\ pc = "val" /\ ti = 1 /\ loc = EmptyLoc /\ wb = <<>>
    /\ summary_rows = <<>> /\ sheets_structured = <<>>
    /\ va \in Floats /\ vb \in Floats /\ vtol \in 0..MaxTol
    /\ veq = NoCall

CallValuesEqual ==
    /\ pc = "val" /\ ~veq.done
    /\ veq' = [done |-> TRUE, r |-> values_equal(va, vb, vtol)]
    /\ UNCHANGED <<cfg, pc, ti, loc, wb, summary_rows, sheets_structured, va, vb, vtol>>

NextVal == CallValuesEqual

SpecVal == InitVal /\ [][NextVal]_vars

-----------------------------------------------------------------------------
(* values_equal and values_different called on two cells of any kind *)

TSmall == Str(<<"1", "e", "-", "0", "5">>)

MixedCells ==
    { NaN, T5, T7, Tab, TAB, TSmall,
      Str(<<" ", "5", " ">>), Str(<<"a", "b", " ">>), Str(<<"5", ".", "0">>), Str(<<" ">>),
      Num(5, 0), Num(59, 1), Num(1, 5), Num(-7, 0) }

InitMix ==
    /\ cfg = <<>> /\ pc = "mix" /\ ti = 1 /\ loc = EmptyLoc /\ wb = <<>>
    /\ summary_rows = <<>> /\ sheets_structured = <<>>
    /\ va \in MixedCells /\ vb \in MixedCells /\ vtol \in 0..MaxTol
    /\ veq = NoCall

CallValuesDifferent ==
    /\ pc = "mix" /\ ~veq.done
    /\ veq' = [done |-> TRUE, r |-> values_equal(va, vb, vtol), d |-> values_different(va, vb, vtol)]
    /\ UNCHANGED <<cfg, pc, ti, loc, wb, summary_rows, sheets_structured, va, vb, vtol>>

NextMix == CallValuesDifferent

SpecMix == InitMix /\ [][NextMix]_vars

-----------------------------------------------------------------------------
(* row_key called on one row of three columns *)

KeyCols == <<"c1", "c2", "c3">>

KeyCells == {NaN, Str(<<" ">>), T5, Str(<<"1", ".", "9">>), Tab, Str(<<"A", "B", " ">>)}

InitKey ==
    /\ cfg = <<>> /\ pc = "key" /\ ti = 1 /\ loc = EmptyLoc /\ wb = <<>>
    /\ summary_rows = <<>> /\ sheets_structured = <<>>
    /\ va \in [ColSet(KeyCols) -> KeyCells] /\ vb = NaN /\ vtol \in 1..MaxParts
    /\ veq = NoCall

CallRowKey ==
    /\ pc = "key" /\ ~veq.done
    /\ veq' = [done |-> TRUE, r |-> row_key(va, KeyCols, vtol)]
    /\ UNCHANGED <<cfg, pc, ti, loc, wb, summary_rows, sheets_structured, va, vb, vtol>>

NextKey == CallRowKey

SpecKey == InitKey /\ [][NextKey]_vars

-----------------------------------------------------------------------------
(* coerce_numeric called on one text *)

Chars == {"1", "2", ",", ".", "-", "(", ")", "a", " "}

TAcct1234 == Str(<<"(", "1", ",", "2", "3", "4", ")">>)

Tabc == Str(<<"a", "b", "c">>)

Texts == {Str(s) : s \in UNION {[1..n -> Chars] : n \in 0..MaxLen}} \cup {TAcct1234, Tabc}

InitNum ==
    /\ cfg = <<>> /\ pc = "num" /\ ti = 1 /\ loc = EmptyLoc /\ wb = <<>>
    /\ summary_rows = <<>> /\ sheets_structured = <<>>
    /\ va \in Texts /\ vb = NaN /\ vtol = 0
    /\ veq = NoCall

CallCoerceNumeric ==
    /\ pc = "num" /\ ~veq.done
    /\ veq' = [done |-> TRUE, r |-> coerce_numeric(va)]
    /\ UNCHANGED <<cfg, pc, ti, loc, wb, summary_rows, sheets_structured, va, vb, vtol>>

NextNum == CallCoerceNumeric

SpecNum == InitNum /\ [][NextNum]_vars

-----------------------------------------------------------------------------
(* The API endpoints of views.py.  va is the request, vb parsed_config, vtol  *)
(* the uploads read and the comparisons invoked, veq the response.            *)

\* urls.py: the paths of the six endpoints
Endpoints ==
    {"compare", "compare/json", "compare/html", "compare/sheets", "compare/sheet/diff",
     "compare/excel"}

\* the sheets of the default sheets_config, in its order
default_sheets ==
    <<"Gain Summary", "ScheduleFA", "transaction_details", "transaction_details_by_gain">>

Position(name) == CHOOSE i \in 1..Len(default_sheets) : default_sheets[i] = name

\* what the two uploads hold under the names of the default sheets
DefaultTables ==
    { Table("Gain Summary", AcctCols, <<Row2("Account Number", T100, "Amount", T1000)>>,
                            AcctCols, <<Row2("Account Number", T100, "Amount", T998)>>),
      Table("Gain Summary", AcctCols, <<Row2("Account Number", T100, "Amount", T999)>>,
                            AcctCols, <<Row2("Account Number", T100, "Amount", T999)>>),
      Table("ScheduleFA", AcctCols, <<Row2("Account Number", T100, "Amount", T1000)>>,
                          AcctCols, <<Row2("Account Number", T100, "Amount", T998)>>),
      Table("ScheduleFA", <<"Sl. No.", "ID">>, <<Row2("Sl. No.", NaN, "ID", T5)>>,
                          <<"Sl. No.", "Tag">>, <<Row2("Sl. No.", NaN, "Tag", Tab)>>),
      Table("transaction_details", AcctCols, <<Row2("Account Number", T100, "Amount", T999)>>,
                                   AcctCols, <<Row2("Account Number", T200, "Amount", T999)>>),
      Unreadable(Table("transaction_details_by_gain", AcctCols, <<>>, AcctCols, <<>>)) }

\* the default sheets_config over the uploads, cut to MaxTables of its sheets
DefaultConfigs ==
    {c \in UNION {SeqsOfLen(DefaultTables, n) : n \in 1..MaxTables} :
        \A p, q \in 1..Len(c) : p < q => Position(c[p].name) < Position(c[q].name)}

\* a sheets_config of the request, over the uploads
CustomConfigs ==
    { <<Table("Other Sheet", GenericCols, <<Row2("ID", T5, "Tag", Tab)>>,
                             GenericCols, <<Row2("ID", T5, "Tag", Tab)>>)>>,
      <<Table("Other", GenericCols, <<Row2("ID", T5, "Tag", Tab)>>,
                       GenericCols, <<Row2("ID", T7, "Tag", Tab)>>)>> }

\* files: 0 when original_file is missing, 1 when only website_file is, 2 when
\* both are uploaded
Requests ==
    [endpoint : Endpoints, method : {"GET", "POST"}, files : {0, 1, 2},
     sheets_config : {"absent", "invalid", "valid"}, country : {"india", "usa"},
     default : DefaultConfigs, custom : CustomConfigs]

NoResponse == [status |-> 0, kind |-> "", sheets |-> <<>>]

JsonError(status) == [status |-> status, kind |-> "error", sheets |-> <<>>]

JsonBody(kind) == [status |-> 200, kind |-> kind, sheets |-> <<>>]

InitApi ==
    /\ cfg = <<>> /\ pc = "request" /\ ti = 1 /\ loc = EmptyLoc /\ wb = <<>>
    /\ summary_rows = <<>> /\ sheets_structured = <<>>
    /\ va \in Requests
    /\ vb = "None"
    /\ vtol = [reads |-> 0, calls |-> 0]
    /\ veq = NoResponse

\* a variant that takes the text of sheets_config as it comes
parse_config_as_given(sheets_config) ==
    IF sheets_config = "absent" THEN "None" ELSE "parsed"

\* parsed_config: json.loads in its own try, None when it raises
parse_config(sheets_config) ==
    IF sheets_config = "valid" THEN "parsed" ELSE "None"

\* a variant that lists every entry with a row, the header row included
sheets_with_any(entries) ==
    LET listed == SelectSeq(entries, LAMBDA e : \/ Len(e.different_rows) > 0
                                               \/ Len(e.only_in_original_rows) > 0
                                               \/ Len(e.only_in_website_rows) > 0)
    IN  [q \in 1..Len(listed) |-> listed[q].name]

\* the names of the entries with a row below the header row in different_rows,
\* only_in_original_rows or only_in_website_rows (views.py)
sheets_with_diff(entries) ==
    LET listed == SelectSeq(entries, LAMBDA e : \/ Len(e.different_rows) > 1
                                               \/ Len(e.only_in_original_rows) > 1
                                               \/ Len(e.only_in_website_rows) > 1)
    IN  [q \in 1..Len(listed) |-> listed[q].name]

\* the same listing, of the comparator
compare_excel_sheets_inline_India(entries) ==
    LET listed == SelectSeq(entries, LAMBDA e : \/ Len(e.different_rows) > 1
                                               \/ Len(e.only_in_original_rows) > 1
                                               \/ Len(e.only_in_website_rows) > 1)
    IN  [q \in 1..Len(listed) |-> listed[q].name]

\* a view up to the call of the comparison: the method check, the uploads, the
\* configuration, the reading of the uploads
Receive(reads_config) ==
    LET parsed == IF reads_config THEN parse_config(va.sheets_config) ELSE "None"
    IN  /\ pc = "request"
        /\ IF va.method # "POST"
           THEN /\ veq' = JsonError(400)
                /\ pc' = "responded"
                /\ UNCHANGED <<cfg, vb, vtol>>
           ELSE IF va.files < 2
           THEN /\ veq' = JsonError(500)
                /\ pc' = "responded"
                /\ vb' = parsed
                /\ vtol' = [reads |-> va.files, calls |-> 0]
                /\ UNCHANGED cfg
           ELSE /\ vb' = parsed
                /\ vtol' = [reads |-> 2, calls |-> 1]
                /\ IF va.country = "india"
                   THEN /\ cfg' = IF parsed = "None" THEN va.default ELSE va.custom
                        /\ pc' = "load"
                   ELSE /\ pc' = "usa"
                        /\ UNCHANGED cfg
                /\ UNCHANGED veq
        /\ UNCHANGED <<ti, loc, wb, summary_rows, sheets_structured, va>>

\* a view from the end of the comparison: the response made of its result, or
\* the except branch; the comparison of the other country is not in this code,
\* it returns or raises
Return(body) ==
    /\ pc \in {"done", "raised", "usa"}
    /\ IF pc = "raised" THEN veq' = JsonError(500)
       ELSE IF pc = "usa"
       THEN \E raised \in BOOLEAN : veq' = IF raised THEN JsonError(500) ELSE JsonBody("other")
       ELSE veq' = body
    /\ pc' = "responded"
    /\ UNCHANGED <<cfg, ti, loc, wb, summary_rows, sheets_structured, va, vb, vtol>>

compare_excel_api ==
    /\ va.endpoint = "compare"
    /\ Receive(TRUE) \/ Return(JsonBody("result"))

compare_json_api ==
    /\ va.endpoint = "compare/json"
    /\ Receive(TRUE) \/ Return(JsonBody("results"))

compare_html_api ==
    /\ va.endpoint = "compare/html"
    /\ Receive(TRUE) \/ Return(JsonBody("html"))

compare_sheets_api ==
    /\ va.endpoint = "compare/sheets"
    /\ Receive(FALSE)
       \/ Return([status |-> 200, kind |-> "sheets", sheets |-> sheets_with_diff(sheets_structured)])

compare_sheet_diff_api ==
    /\ va.endpoint = "compare/sheet/diff"
    /\ Receive(FALSE) \/ Return(JsonBody("sheet"))

compare_excel_file_api ==
    /\ va.endpoint = "compare/excel"
    /\ Receive(TRUE) \/ Return(JsonBody("file"))

NextApi ==
    \/ compare_excel_api
    \/ compare_json_api
    \/ compare_html_api
    \/ compare_sheets_api
    \/ compare_sheet_diff_api
    \/ compare_excel_file_api
    \/ LoadWorkbooks
    \/ ReadFails
    \/ ReadTable
    \/ OrigRow
    \/ WebRow
    \/ TableRaise
    \/ FinishTable
    \/ PostProcess

SpecApi == InitApi /\ [][NextApi]_vars

-----------------------------------------------------------------------------
(* Properties.  The entry at position p of sheets_structured is the entry  *)
(* of the table cfg[p].                                                     *)

Entries == 1..Len(sheets_structured)

\* the table was reconciled: it was read, has common columns, and nothing raised
Reconciled(p) == sheets_structured[p].has_main /\ ~sheets_structured[p].error

PathAt(p) == PathOf(cfg[p].name, common_cols(cfg[p]))

\* the rows of a bucket below its header row
DataRows(bucket) == IF bucket = <<>> THEN 0 ELSE Len(bucket) - 1

\* how often the row a of sheet A (the row b of sheet B) occurs in a bucket's rows
TimesA(pv, a) == Cardinality({q \in 1..Len(pv) : pv[q].a = a})

TimesB(pv, b) == Cardinality({q \in 1..Len(pv) : pv[q].b = b})

(* C1, as stated: counting every row of the returned bucket lists,
   |Common| + |Different| + |OnlyInA| + |OnlyInB| = rows_compared + |Common|
   for every table reconciled without error. *)
C1_AsStated ==
    \A p \in Entries :
        ~sheets_structured[p].error =>
            LET e == sheets_structured[p]
            IN  Len(e.common_rows) + Len(e.different_rows) + Len(e.only_in_original_rows)
                + Len(e.only_in_website_rows) = e.rows_compared + Len(e.common_rows)

(* C1, amended: the equation holds of the rows below the header row each bucket
   list starts with, on all three matching paths. *)
C1_Completeness ==
    \A p \in Entries :
        ~sheets_structured[p].error =>
            LET e == sheets_structured[p]
            IN  DataRows(e.common_rows) + DataRows(e.different_rows)
                + DataRows(e.only_in_original_rows) + DataRows(e.only_in_website_rows)
                = e.rows_compared + DataRows(e.common_rows)

C1_Witness ==
    \E p \in Entries :
        /\ Reconciled(p)
        /\ DataRows(sheets_structured[p].common_rows) >= 1
        /\ DataRows(sheets_structured[p].only_in_original_rows) >= 1
        /\ sheets_structured[p].rows_compared >= 1

(* C2: on the general (row_key) path every row of A is in exactly one of Common,
   Different, OnlyInA, and every row of B is the partner of exactly one row of A
   or exactly once in OnlyInB. *)
C2_EveryRowOnce ==
    \A p \in Entries :
        Reconciled(p) /\ PathAt(p) = "general" =>
            LET pv == sheets_structured[p].prov
            IN  /\ \A a \in 1..Len(cfg[p].rowsA) :
                       TimesA(pv.common, a) + TimesA(pv.diff, a) + TimesA(pv.only_orig, a) = 1
                /\ \A b \in 1..Len(cfg[p].rowsB) :
                       TimesB(pv.common, b) + TimesB(pv.diff, b) + TimesB(pv.only_web, b) = 1

(* C3: on the map-match path a row of A without key is in OnlyInA and a row of B
   without key is in OnlyInB. *)
C3_KeylessRowsSurface ==
    \A p \in Entries :
        Reconciled(p) /\ PathAt(p) = "map" =>
            LET pv == sheets_structured[p].prov
                kc == key_cols(common_cols(cfg[p]))
            IN  /\ \A a \in 1..Len(cfg[p].rowsA) :
                       ~MapKey(cfg[p].rowsA[a], kc).ok => TimesA(pv.only_orig, a) = 1
                /\ \A b \in 1..Len(cfg[p].rowsB) :
                       ~MapKey(cfg[p].rowsB[b], kc).ok => TimesB(pv.only_web, b) = 1

\* the row a of sheet A (b of sheet B) is in some bucket of the entry
ShownA(e, a) ==
    TimesA(e.prov.common, a) + TimesA(e.prov.diff, a) + TimesA(e.prov.only_orig, a) > 0

ShownB(e, b) ==
    TimesB(e.prov.common, b) + TimesB(e.prov.diff, b) + TimesB(e.prov.only_web, b) > 0

\* composite keying is selected for the table (lines 301-308)
CompositeAt(p) == PathAt(p) # "general" /\ use_composite(common_cols(cfg[p]))

\* row x of the sheet is shown exactly if no earlier row of the sheet has its composite key
FirstOfKeyShown(rows, x, shown) ==
    LET k == composite_acct_key(rows[x], preferred_keys)
    IN  k.ok => (shown <=> ~\E y \in 1..(x - 1) : composite_acct_key(rows[y], preferred_keys) = k)

(* C4, as stated: in every table for which composite keying is selected, of the
   rows of a dataset that share a composite key the first is retained and no
   later one is in any bucket. *)
C4_AsStated ==
    \A p \in Entries :
        Reconciled(p) /\ CompositeAt(p) =>
            /\ \A a \in 1..Len(cfg[p].rowsA) :
                   FirstOfKeyShown(cfg[p].rowsA, a, ShownA(sheets_structured[p], a))
            /\ \A b \in 1..Len(cfg[p].rowsB) :
                   FirstOfKeyShown(cfg[p].rowsB, b, ShownB(sheets_structured[p], b))

SameRawKey(r1, r2) == \A k \in 1..Len(preferred_keys) : r1[preferred_keys[k]] = r2[preferred_keys[k]]

(* C4, amended: that holds in the tables matched by the composite map (composite
   keying selected and the table is not Gain Summary); in Gain Summary a later
   row is dropped when its three key cells equal an earlier row's as read. *)
C4_Deduplication ==
    \A p \in Entries :
        Reconciled(p) /\ CompositeAt(p) =>
            IF PathAt(p) = "map"
            THEN /\ \A a \in 1..Len(cfg[p].rowsA) :
                        FirstOfKeyShown(cfg[p].rowsA, a, ShownA(sheets_structured[p], a))
                 /\ \A b \in 1..Len(cfg[p].rowsB) :
                        FirstOfKeyShown(cfg[p].rowsB, b, ShownB(sheets_structured[p], b))
            ELSE /\ \A a \in 1..Len(cfg[p].rowsA) :
                        (\E y \in 1..(a - 1) : SameRawKey(cfg[p].rowsA[y], cfg[p].rowsA[a]))
                            => ~ShownA(sheets_structured[p], a)
                 /\ \A b \in 1..Len(cfg[p].rowsB) :
                        (\E y \in 1..(b - 1) : SameRawKey(cfg[p].rowsB[y], cfg[p].rowsB[b]))
                            => ~ShownB(sheets_structured[p], b)

\* a composite map-match table whose sheet A holds two rows that differ as read
\* and share their composite key, reconciled
C4_Witness ==
    \E p \in Entries :
        /\ Reconciled(p) /\ CompositeAt(p) /\ PathAt(p) = "map"
        /\ \E a1, a2 \in 1..Len(cfg[p].rowsA) :
              /\ a1 < a2
              /\ cfg[p].rowsA[a1] # cfg[p].rowsA[a2]
              /\ composite_acct_key(cfg[p].rowsA[a1], preferred_keys).ok
              /\ composite_acct_key(cfg[p].rowsA[a1], preferred_keys)
                    = composite_acct_key(cfg[p].rowsA[a2], preferred_keys)
              /\ ShownA(sheets_structured[p], a1)

\* |vb - va| <= n and |vb - va| >= n, for the two floats of the call and an integer n
DistanceAtMost(n) ==
    LET d == DecSub(DecOf(vb), DecOf(va)) IN Abs(d.m) <= n * Pow10(d.e)

DistanceAtLeast(n) ==
    LET d == DecSub(DecOf(vb), DecOf(va)) IN Abs(d.m) >= n * Pow10(d.e)

(* C5, as stated: for floats a and b and a tolerance tol, values_equal(a, b, tol)
   is true whenever |a - b| <= tol and false whenever |a - b| > tol. *)
C5_AsStated ==
    veq.done => /\ DistanceAtMost(vtol) => veq.r
                /\ ~DistanceAtMost(vtol) => ~veq.r

(* C5, amended: for floats a and b and a whole tolerance tol >= 0,
   values_equal(a, b, tol) is true whenever |a - b| <= tol and false whenever
   |a - b| >= tol + 2; in all cases it is true exactly when the values cut to
   their whole parts (toward zero) are at most tol apart. *)
C5_ToleranceOnWholeParts ==
    veq.done => /\ DistanceAtMost(vtol) => veq.r
                /\ DistanceAtLeast(vtol + 2) => ~veq.r
                /\ veq.r <=> Abs(DecTrunc(DecOf(vb)) - DecTrunc(DecOf(va))) <= vtol

\* values_equal(1.0, 2.9, 1) has returned True
C5_Witness ==
    veq.done /\ va = Num(10, 1) /\ vb = Num(29, 1) /\ vtol = 1 /\ veq.r

\* the table at p is matched by account number over the columns Account Number and
\* Amount, and the rows a of A and b of B are the first of their sheets with the
\* account they share, holding the amounts o and w
AmountPair(p, a, b, o, w) ==
    /\ Reconciled(p) /\ PathAt(p) = "map" /\ common_cols(cfg[p]) = AcctCols
    /\ cfg[p].rowsA[a]["Account Number"] = T100 /\ cfg[p].rowsB[b]["Account Number"] = T100
    /\ \A y \in 1..(a - 1) : cfg[p].rowsA[y]["Account Number"] # T100
    /\ \A y \in 1..(b - 1) : cfg[p].rowsB[y]["Account Number"] # T100
    /\ cfg[p].rowsA[a]["Amount"] = o /\ cfg[p].rowsB[b]["Amount"] = w

\* the pair is the q-th row of Different, and its Amount (Diff) cell is d
DifferentWithDiff(e, a, b, d) ==
    /\ TimesA(e.prov.common, a) = 0 /\ TimesB(e.prov.common, b) = 0
    /\ \E q \in 1..Len(e.prov.diff) :
          /\ e.prov.diff[q] = [a |-> a, b |-> b]
          /\ e.different_rows[q + 1][6] = d

OnlyRows(p, a, b) == Len(cfg[p].rowsA) = 1 /\ Len(cfg[p].rowsB) = 1 /\ a = 1 /\ b = 1

(* C6, as stated: with tolerance 1, a matched pair with equal key whose one other
   column holds "1,000" in the original and "999" in the other sheet is in
   Different, its diff cell is -1, and cells_different of a table holding only
   that pair is 1. *)
C6_AsStated ==
    \A p \in Entries : \A a \in 1..Len(cfg[p].rowsA), b \in 1..Len(cfg[p].rowsB) :
        AmountPair(p, a, b, T1000, T999) =>
            /\ DifferentWithDiff(sheets_structured[p], a, b, Num(-1, 0))
            /\ OnlyRows(p, a, b) => sheets_structured[p].cells_different = 1

(* C6, amended: with tolerance 1 the pair "1,000" / "999" is within tolerance: it
   is in Common and adds nothing to cells_different; the pair "1,000" / "998" is
   in Different, its diff cell is -2 (other - original), and cells_different of a
   table holding only that pair is 1. *)
C6_ToleranceScenario ==
    \A p \in Entries : \A a \in 1..Len(cfg[p].rowsA), b \in 1..Len(cfg[p].rowsB) :
        /\ AmountPair(p, a, b, T1000, T999) =>
              /\ TimesA(sheets_structured[p].prov.diff, a) = 0
              /\ \E q \in 1..Len(sheets_structured[p].prov.common) :
                    /\ sheets_structured[p].prov.common[q] = [a |-> a, b |-> b]
                    /\ sheets_structured[p].common_rows[q + 1][6] = Empty
              /\ OnlyRows(p, a, b) => sheets_structured[p].cells_different = 0
        /\ AmountPair(p, a, b, T1000, T998) =>
              /\ DifferentWithDiff(sheets_structured[p], a, b, Num(-2, 0))
              /\ OnlyRows(p, a, b) => sheets_structured[p].cells_different = 1

\* a table holding only the pair "1,000" / "999" has been reconciled
C6_Witness ==
    \E p \in Entries :
        /\ Len(cfg[p].rowsA) = 1 /\ Len(cfg[p].rowsB) = 1
        /\ AmountPair(p, 1, 1, T1000, T999)
        /\ DataRows(sheets_structured[p].common_rows) = 1

\* the locals of a table when both of its row loops have run to their end
RECURSIVE RunLoops(_)
RunLoops(L) ==
    IF Phase(L) = "orig" THEN RunLoops(OrigStep(L))
    ELSE IF Phase(L) = "web" THEN RunLoops(WebStep(L))
    ELSE L

\* the entries of a call configured with the given tables in which no statement
\* raises but the reading of an unreadable sheet
RECURSIVE RefFrom(_, _, _, _)
RefFrom(tables, p, names, entries) ==
    IF p > Len(tables) THEN entries
    ELSE IF ~tables[p].readable
    THEN RefFrom(tables, p + 1, names, Append(entries, ErrorEntry(tables[p].name)))
    ELSE IF common_cols(tables[p]) = <<>>
    THEN RefFrom(tables, p + 1, NoCommonSheets(tables[p].name, names),
                 Append(entries, NoCommonEntry(tables[p].name)))
    ELSE LET L == RunLoops(StartLoc(tables[p], names))
         IN  RefFrom(tables, p + 1, Append(names, L.main_title),
                     Append(entries, Entry(tables[p].name, L)))

\* the positions of the tables processed without failure, in order
Survivors == SelectSeq([p \in Entries |-> p], LAMBDA p : ~sheets_structured[p].error)

\* the entries of the call configured with those tables alone
RefEntries == RefFrom([q \in 1..Len(Survivors) |-> cfg[Survivors[q]]], 1, <<>>, <<>>)

Failed == {p \in Entries : sheets_structured[p].error}

\* one entry per processed table, under the table's name; a failed table's entry
\* has the error marker, zero counts and four empty buckets
OneEntryEach ==
    /\ \A p \in Entries : sheets_structured[p].name = cfg[p].name
    /\ Len(sheets_structured) = ti - 1
    /\ pc = "done" => Len(sheets_structured) = Len(cfg)
    /\ \A p \in Failed :
          /\ sheets_structured[p].rows_compared = 0
          /\ sheets_structured[p].cells_different = 0
          /\ sheets_structured[p].common_rows = <<>>
          /\ sheets_structured[p].different_rows = <<>>
          /\ sheets_structured[p].only_in_original_rows = <<>>
          /\ sheets_structured[p].only_in_website_rows = <<>>

\* an entry without the title of its sheet in the output workbook
Content(e) == [e EXCEPT !.main_ws_name = NoTitle]

(* C7, as stated: when one table fails, there is one entry per table, the failed
   table's entry has the error marker, zero counts and four empty buckets, and
   the entries of the other tables are those of the call configured without the
   failed table. *)
C7_AsStated ==
    Cardinality(Failed) = 1 =>
        /\ OneEntryEach
        /\ \A q \in 1..Len(Survivors) : sheets_structured[Survivors[q]] = RefEntries[q]

(* C7, amended: when tables fail, there is one entry per table, each failed
   table's entry has the error marker, zero counts and four empty buckets, and
   the buckets and counts of the other tables are those of the call configured
   without the failed tables; the _main_ws_name of a later entry may differ. *)
C7_FailureIsolation ==
    Failed # {} =>
        /\ OneEntryEach
        /\ \A q \in 1..Len(Survivors) :
              Content(sheets_structured[Survivors[q]]) = Content(RefEntries[q])

\* a table failed after its sheet was created, and a later table with a
\* colliding title was reconciled, some of its rows in the buckets
C7_Witness ==
    \E p, q \in Entries :
        /\ p < q
        /\ sheets_structured[p].error /\ cfg[p].readable
        /\ Reconciled(q) /\ sheets_structured[q].rows_compared >= 1
        /\ sheets_structured[q].main_ws_name.x >= 1
        /\ pc = "done"

(* C8: the call never ends by raising, whatever the documents and the
   configuration: not while loading the workbooks, not in the loop over the
   tables, not while building the sheets after it. *)
C8_NeverRaises == pc # "raised"

\* the sheets of the table have no column in common once "Sl. No." is set aside
\* for the three sheets that exclude it
NoCommonColumns(t) ==
    \A c \in ColSet(t.colsA) \cap ColSet(t.colsB) :
        c = "Sl. No." /\ t.name \in {"ScheduleFA", "transaction_details", "transaction_details_by_gain"}

(* C9: the step that handles a table whose two sheets were read and have no common
   column records an entry with rows_compared = 0, cells_different = 0, four empty
   buckets and no error marker, and a summary row of zeros, raises nothing, and
   goes on to the next table. *)
C9_NoCommonColumns ==
    [][ (pc = "read" /\ ti <= Len(cfg) /\ cfg[ti].readable /\ NoCommonColumns(cfg[ti])) =>
          /\ Len(sheets_structured') = ti /\ Len(summary_rows') = ti
          /\ LET e == sheets_structured'[ti]
                  r == summary_rows'[ti]
              IN  /\ e.name = cfg[ti].name /\ ~e.error
                  /\ e.rows_compared = 0 /\ e.cells_different = 0
                  /\ e.common_rows = <<>> /\ e.different_rows = <<>>
                  /\ e.only_in_original_rows = <<>> /\ e.only_in_website_rows = <<>>
                  /\ r.sheet = cfg[ti].name /\ ~r.error
                  /\ r.rows_compared = 0 /\ r.cells_different = 0
                  /\ r.common = 0 /\ r.only_orig = 0 /\ r.only_web = 0
          /\ pc' = "read" /\ ti' = ti + 1 ]_vars

\* a table without common columns was handled, and the table after it reconciled
C9_Witness ==
    \E p, q \in Entries :
        /\ p < q
        /\ cfg[p].readable /\ NoCommonColumns(cfg[p])
        /\ cfg[p].colsA # <<>> /\ cfg[p].colsB # <<>>
        /\ ~sheets_structured[p].error
        /\ Reconciled(q)

\* the account keys of the rows of a sheet, and the first row of the sheet with key k
KeysOf(rows, kc) == {MapKey(rows[x], kc).s : x \in {y \in 1..Len(rows) : MapKey(rows[y], kc).ok}}

FirstWith(rows, kc, k) ==
    CHOOSE x \in 1..Len(rows) :
        /\ MapKey(rows[x], kc) = [ok |-> TRUE, s |-> k]
        /\ \A y \in 1..(x - 1) : MapKey(rows[y], kc) # [ok |-> TRUE, s |-> k]

(* C10: on the map-match path, a key of A that is no key of B has its row of A in
   OnlyInOriginal and in no other bucket; a key of B that is no key of A has its
   row of B in OnlyInOther and in no other bucket; a key of both has its pair of
   rows in Common when all cells agree and in Different otherwise, and in neither
   OnlyIn bucket. *)
C10_KeyMembership ==
    \A p \in Entries :
        Reconciled(p) /\ PathAt(p) = "map" =>
            LET kc == key_cols(common_cols(cfg[p]))
                A  == cfg[p].rowsA
                B  == cfg[p].rowsB
                pv == sheets_structured[p].prov
            IN  /\ \A k \in KeysOf(A, kc) \ KeysOf(B, kc) :
                       /\ TimesA(pv.only_orig, FirstWith(A, kc, k)) = 1
                       /\ TimesA(pv.common, FirstWith(A, kc, k)) = 0
                       /\ TimesA(pv.diff, FirstWith(A, kc, k)) = 0
                /\ \A k \in KeysOf(B, kc) \ KeysOf(A, kc) :
                       /\ TimesB(pv.only_web, FirstWith(B, kc, k)) = 1
                       /\ TimesB(pv.common, FirstWith(B, kc, k)) = 0
                       /\ TimesB(pv.diff, FirstWith(B, kc, k)) = 0
                /\ \A k \in KeysOf(A, kc) \cap KeysOf(B, kc) :
                       LET a    == FirstWith(A, kc, k)
                           b    == FirstWith(B, kc, k)
                           pair == [a |-> a, b |-> b]
                           same == \A c \in ColSet(common_cols(cfg[p])) :
                                       values_equal(A[a][c], B[b][c], NUMERIC_TOLERANCE)
                       IN  /\ Cardinality({q \in 1..Len(pv.common) : pv.common[q] = pair})
                                = (IF same THEN 1 ELSE 0)
                           /\ Cardinality({q \in 1..Len(pv.diff) : pv.diff[q] = pair})
                                = (IF same THEN 0 ELSE 1)
                           /\ TimesA(pv.common, a) + TimesA(pv.diff, a) = 1
                           /\ TimesB(pv.common, b) + TimesB(pv.diff, b) = 1
                           /\ TimesA(pv.only_orig, a) = 0
                           /\ TimesB(pv.only_web, b) = 0

\* a map-match table with a key of both sheets and a key of one sheet alone
C10_Witness ==
    \E p \in Entries :
        /\ Reconciled(p) /\ PathAt(p) = "map"
        /\ KeysOf(cfg[p].rowsA, key_cols(common_cols(cfg[p])))
              \cap KeysOf(cfg[p].rowsB, key_cols(common_cols(cfg[p]))) # {}
        /\ KeysOf(cfg[p].rowsA, key_cols(common_cols(cfg[p])))
              \ KeysOf(cfg[p].rowsB, key_cols(common_cols(cfg[p]))) # {}
        /\ DataRows(sheets_structured[p].only_in_original_rows) = 1

(* C11: the summary row of every table reconciled without error has the table's
   counts: its common count is the number of pairs classified Common, its
   only-in-original and only-in-other counts the numbers of rows so classified,
   its rows_compared and cells_different those of the table's entry; there is
   one summary row per processed table, in configuration order. *)
C11_SummaryCounts ==
    /\ Len(summary_rows) = Len(sheets_structured)
    /\ \A p \in Entries :
          /\ summary_rows[p].sheet = cfg[p].name
          /\ ~sheets_structured[p].error =>
                /\ summary_rows[p].common = Len(sheets_structured[p].prov.common)
                /\ summary_rows[p].only_orig = Len(sheets_structured[p].prov.only_orig)
                /\ summary_rows[p].only_web = Len(sheets_structured[p].prov.only_web)
                /\ summary_rows[p].rows_compared = sheets_structured[p].rows_compared
                /\ summary_rows[p].cells_different = sheets_structured[p].cells_different

\* the text is a number as float() reads it: an optional '-', then digits with at
\* most one '.', at least one digit
ValidNumber(s) ==
    LET body == IF s # <<>> /\ s[1] = "-" THEN SubSeq(s, 2, Len(s)) ELSE s
    IN  /\ \A i \in 1..Len(body) : IsDigit(body[i]) \/ body[i] = "."
        /\ Cardinality({i \in 1..Len(body) : body[i] = "."}) <= 1
        /\ \E i \in 1..Len(body) : IsDigit(body[i])

\* the number such a text denotes, as the pair of its digits read as an integer
\* and the count of digits after the '.'
Denoted(s) ==
    LET ds   == SelectSeq(s, IsDigit)
        dots == {i \in 1..Len(s) : s[i] = "."}
        frac == IF dots = {} THEN 0 ELSE Len(s) - (CHOOSE i \in dots : TRUE)
        mag  == DigitsToNat(ds)
    IN  DecNorm(IF s[1] = "-" THEN -mag ELSE mag, frac)

\* the trimmed text with a wrapping pair of parentheses replaced by a leading '-',
\* and of that the digits, '.' and '-' alone
Cleaned(s) ==
    LET t == Strip(s)
        u == IF Len(t) >= 1 /\ t[1] = "(" /\ t[Len(t)] = ")"
             THEN <<"-">> \o SubSeq(t, 2, Len(t) - 1) ELSE t
    IN  SelectSeq(u, LAMBDA c : IsDigit(c) \/ c \in {".", "-"})

(* C13: coerce_numeric of a text returns null when the trimmed text is empty;
   otherwise it reads the text with parentheses turned into a minus sign and
   every character but digits, '.' and '-' removed: the number when that is a
   valid number, null when it is empty or no valid number.  "(1,234)" gives
   -1234, "" and "abc" give null.  It always returns. *)
C13_CoerceNumeric ==
    veq.done =>
        /\ veq.r.ok \in BOOLEAN
        /\ Strip(va.s) = <<>> => veq.r = None
        /\ Strip(va.s) # <<>> /\ ValidNumber(Cleaned(va.s)) => veq.r = Some(Denoted(Cleaned(va.s)))
        /\ Strip(va.s) # <<>> /\ ~ValidNumber(Cleaned(va.s)) => veq.r = None
        /\ va = TAcct1234 => veq.r = Some([m |-> -1234, e |-> 0])
        /\ va \in {Str(<<>>), Tabc} => veq.r = None

\* coerce_numeric("(1,234)") has returned -1234
C13_Witness == veq.done /\ va = TAcct1234 /\ veq.r = Some([m |-> -1234, e |-> 0])

(* C14: on the paths matched by row_key, every row of A is paired with the first
   row of B of its key that no earlier row of A was paired with; so no row of B
   is the partner of more than one row of A. *)
C14_FirstUnclaimed ==
    \A p \in Entries :
        Reconciled(p) /\ PathAt(p) # "map" =>
            \A b \in 1..Len(cfg[p].rowsB) :
                TimesB(sheets_structured[p].prov.common, b)
                    + TimesB(sheets_structured[p].prov.diff, b) <= 1

\* the rows a of A and b of B of the table at p are tolerant-equal in every common column
EqualInAll(p, a, b) ==
    \A c \in ColSet(common_cols(cfg[p])) :
        values_equal(cfg[p].rowsA[a][c], cfg[p].rowsB[b][c], NUMERIC_TOLERANCE)

\* the rows of B with the row_key of the row a of A
SameRowKey(p, a) ==
    {b \in 1..Len(cfg[p].rowsB) :
        row_key(cfg[p].rowsB[b], common_cols(cfg[p]), 2)
            = row_key(cfg[p].rowsA[a], common_cols(cfg[p]), 2)}

PairsOf(pv) == {pv[q] : q \in 1..Len(pv)}

(* C15: on every path, a pair in Common agrees by values_equal in every common
   column and a pair in Different does not; a row of a matched pair is in neither
   OnlyIn bucket, and no pair is in both Common and Different.  On the general
   path a row of A with a row of B of its key is matched: it is in Common or
   Different, once. *)
C15_CommonIffAllEqual ==
    \A p \in Entries :
        Reconciled(p) =>
            LET pv == sheets_structured[p].prov
            IN  /\ \A x \in PairsOf(pv.common) : EqualInAll(p, x.a, x.b)
                /\ \A x \in PairsOf(pv.diff) : ~EqualInAll(p, x.a, x.b)
                /\ \A x \in PairsOf(pv.common) \cup PairsOf(pv.diff) :
                       /\ TimesA(pv.only_orig, x.a) = 0
                       /\ TimesB(pv.only_web, x.b) = 0
                       /\ TimesA(pv.common, x.a) + TimesA(pv.diff, x.a) = 1
                /\ PathAt(p) = "general" =>
                       \A a \in 1..Len(cfg[p].rowsA) :
                           IF SameRowKey(p, a) = {}
                           THEN TimesA(pv.common, a) + TimesA(pv.diff, a) = 0
                           ELSE \E b \in SameRowKey(p, a) :
                                   /\ [a |-> a, b |-> b] \in PairsOf(pv.common) \cup PairsOf(pv.diff)
                                   /\ [a |-> a, b |-> b] \in PairsOf(pv.common) <=> EqualInAll(p, a, b)

\* a table with a matched pair in Common and a matched pair in Different
C15_Witness ==
    \E p \in Entries :
        /\ Reconciled(p)
        /\ sheets_structured[p].prov.common # <<>>
        /\ sheets_structured[p].prov.diff # <<>>

\* the rows of A (of B) a bucket's rows were made of
RowsA(pv) == {pv[q].a : q \in 1..Len(pv)}

RowsB(pv) == {pv[q].b : q \in 1..Len(pv)}

\* the rows of A the three buckets fed from A were made of
EmittedA(pv) == RowsA(pv.common) \cup RowsA(pv.diff) \cup RowsA(pv.only_orig)

\* each bucket lists its rows in the row order of the sheet they come from
InSourceOrder(pv) ==
    /\ \A q, r \in 1..Len(pv.common) : q < r => pv.common[q].a < pv.common[r].a
    /\ \A q, r \in 1..Len(pv.diff) : q < r => pv.diff[q].a < pv.diff[r].a
    /\ \A q, r \in 1..Len(pv.only_orig) : q < r => pv.only_orig[q].a < pv.only_orig[r].a
    /\ \A q, r \in 1..Len(pv.only_web) : q < r => pv.only_web[q].b < pv.only_web[r].b

\* a step of a table's pass emits a row of A only below every row of A emitted
\* before and only while no row of B alone was emitted, and a row of B alone
\* only below every such row emitted before
EmitsInOrder ==
    (EmittedA(loc'.prov) \cup RowsB(loc'.prov.only_web) # {}) =>
        /\ \A a \in EmittedA(loc'.prov) \ EmittedA(loc.prov) :
              /\ \A x \in EmittedA(loc.prov) : x < a
              /\ loc.prov.only_web = <<>>
        /\ \A b \in RowsB(loc'.prov.only_web) \ RowsB(loc.prov.only_web) :
              \A x \in RowsB(loc.prov.only_web) : x < b
        /\ EmittedA(loc.prov) \subseteq EmittedA(loc'.prov)
        /\ RowsB(loc.prov.only_web) \subseteq RowsB(loc'.prov.only_web)

(* C16: within a table the rows made of rows of A are emitted in A's row order,
   the rows of B alone after the last of them and in B's row order, and every
   bucket of the pass and of every entry lists its rows in the row order of the
   sheet they come from. *)
C16_Ordering ==
    /\ [](InSourceOrder(loc.prov) /\ \A p \in Entries : InSourceOrder(sheets_structured[p].prov))
    /\ [][EmitsInOrder]_vars

\* a table with two rows of B alone after a row of A was reconciled
C16_Witness ==
    \E p \in Entries :
        /\ Reconciled(p)
        /\ Len(sheets_structured[p].prov.only_web) = 2
        /\ EmittedA(sheets_structured[p].prov) # {}

\* the diff cell of the c-th common column in the q-th row of Different
DiffCell(e, q, c) == e.different_rows[q + 1][3 * c]

\* the number other - original of two cells that both normalize to a number
Delta(o, w) ==
    LET d == DecSub(coerce_numeric(w), coerce_numeric(o)) IN Num(d.m, d.e)

(* C17: in the tripled output, for every row of Different and every common
   column: the diff cell is empty when the two values are tolerant-equal, the
   number other - original when they differ and both normalize to a number, and
   "DIFF" when they differ and one of them does not. *)
C17_DiffEntries ==
    \A p \in Entries :
        Reconciled(p) /\ PathAt(p) # "general" =>
            \A q \in 1..Len(sheets_structured[p].prov.diff) :
                \A c \in 1..Len(common_cols(cfg[p])) :
                    LET x == sheets_structured[p].prov.diff[q]
                        o == cfg[p].rowsA[x.a][common_cols(cfg[p])[c]]
                        w == cfg[p].rowsB[x.b][common_cols(cfg[p])[c]]
                        cell == DiffCell(sheets_structured[p], q, c)
                    IN  IF values_equal(o, w, NUMERIC_TOLERANCE) THEN cell = Str(<<>>)
                        ELSE IF coerce_numeric(o).ok /\ coerce_numeric(w).ok THEN cell = Delta(o, w)
                        ELSE cell = Str(<<"DIFF">>)

\* a row of Different with an empty diff cell and the diff cell -2
C17_Witness ==
    \E p \in Entries :
        /\ Reconciled(p) /\ PathAt(p) # "general" /\ common_cols(cfg[p]) = AcctCols
        /\ \E q \in 1..Len(sheets_structured[p].prov.diff) :
              /\ DiffCell(sheets_structured[p], q, 1) = Str(<<>>)
              /\ DiffCell(sheets_structured[p], q, 2) = Num(-2, 0)

\* a row of Different with the diff cell "DIFF"
C17_WitnessMarker ==
    \E p \in Entries :
        /\ Reconciled(p) /\ PathAt(p) # "general"
        /\ \E q \in 1..Len(sheets_structured[p].prov.diff) :
              \E c \in 1..Len(common_cols(cfg[p])) :
                  DiffCell(sheets_structured[p], q, c) = Str(<<"DIFF">>)

\* the number of common columns in which the rows a of A and b of B differ
DifferingColumns(p, a, b) ==
    Cardinality({c \in ColSet(common_cols(cfg[p])) :
                    ~values_equal(cfg[p].rowsA[a][c], cfg[p].rowsB[b][c], NUMERIC_TOLERANCE)})

\* that number summed over the first q rows of Different
RECURSIVE SumDifferent(_, _)
SumDifferent(p, q) ==
    IF q = 0 THEN 0
    ELSE SumDifferent(p, q - 1)
         + DifferingColumns(p, sheets_structured[p].prov.diff[q].a, sheets_structured[p].prov.diff[q].b)

(* C18, as stated: cells_different of a table reconciled without error is the sum,
   over its rows of Different, of the number of common columns that differ in
   the row. *)
C18_AsStated ==
    \A p \in Entries :
        Reconciled(p) =>
            sheets_structured[p].cells_different
                = SumDifferent(p, Len(sheets_structured[p].prov.diff))

(* C18, amended: cells_different is that sum plus one for every row of
   OnlyInOriginal and one for every row of OnlyInOther. *)
C18_CellsDifferent ==
    \A p \in Entries :
        Reconciled(p) =>
            sheets_structured[p].cells_different
                = SumDifferent(p, Len(sheets_structured[p].prov.diff))
                  + Len(sheets_structured[p].prov.only_orig)
                  + Len(sheets_structured[p].prov.only_web)

\* a table with a row of Different and a row of one sheet alone
C18_Witness ==
    \E p \in Entries :
        /\ Reconciled(p)
        /\ Len(sheets_structured[p].prov.diff) = 1
        /\ Len(sheets_structured[p].prov.only_orig) + Len(sheets_structured[p].prov.only_web) = 1
        /\ sheets_structured[p].cells_different = 2

\* the trimmed text form of a cell: empty for a blank cell
TrimmedText(v) == IF v = NaN THEN <<>> ELSE Strip(IF v.k = "num" THEN FloatToChars(DecOf(v)) ELSE v.s)

\* exactly one of the two cells of the call normalizes to an integer
OneIsNumber == to_int_or_none(va).ok # to_int_or_none(vb).ok

(* C19, as stated: when exactly one of the two values normalizes to an integer,
   values_equal is the exact, case-sensitive comparison of the trimmed text forms
   and is never true; values_different is the negation of values_equal. *)
C19_AsStated ==
    veq.done =>
        /\ OneIsNumber => (veq.r <=> TrimmedText(va) = TrimmedText(vb)) /\ ~veq.r
        /\ veq.d <=> ~veq.r

(* C19, amended: when exactly one of the two values normalizes to an integer,
   values_equal is the exact, case-sensitive comparison of the trimmed text
   forms, and it is true when these are the same text, as for the float 1e-05
   and the text "1e-05"; values_different is the negation of values_equal. *)
C19_MixedFallsToText ==
    veq.done =>
        /\ OneIsNumber => (veq.r <=> TrimmedText(va) = TrimmedText(vb))
        /\ (va = Num(1, 5) /\ vb = TSmall) => OneIsNumber /\ veq.r
        /\ veq.d <=> ~veq.r

\* values_equal of the float 1e-05 and the text "1e-05" has returned True
C19_Witness == veq.done /\ va = Num(1, 5) /\ vb = TSmall /\ veq.r /\ ~veq.d

\* what one cell contributes to a key: its tagged part, or nothing when it is blank
Contribution(v) ==
    IF to_int_or_none(v).ok THEN <<NumPart(to_int_or_none(v).v)>>
    ELSE IF TrimmedText(v) # <<>> THEN <<StrPart(LowerText(TrimmedText(v)))>>
    ELSE <<>>

\* the contributions of the columns from the c-th on, in column order
RECURSIVE Contributions(_, _)
Contributions(row, c) ==
    IF c > Len(KeyCols) THEN <<>>
    ELSE Contribution(row[KeyCols[c]]) \o Contributions(row, c + 1)

\* the first n items of a sequence, all of them when it has fewer
FirstN(s, n) == SubSeq(s, 1, IF n < Len(s) THEN n ELSE Len(s))

(* C20: row_key(row, max_parts), for the max_parts >= 1 it is called with, has at
   most max_parts parts, is made of the parts of the first max_parts informative
   columns in column order (of all when there are fewer): (num, the integer) for
   a cell that converts to an integer, (str, the lowercased trimmed text) for
   another cell with text, nothing for a blank cell; it is empty exactly when
   every column is blank. *)
C20_RowKey ==
    veq.done =>
        /\ Len(veq.r) <= vtol
        /\ veq.r = FirstN(Contributions(va, 1), vtol)
        /\ veq.r = <<>> <=> Contributions(va, 1) = <<>>

\* row_key has skipped a blank first column and stopped after two parts of three
C20_Witness ==
    /\ veq.done /\ vtol = 2
    /\ va["c1"] = NaN /\ va["c2"] = T5 /\ va["c3"] = Str(<<"A", "B", " ">>)
    /\ veq.r = <<NumPart(5), StrPart(<<"a", "b">>)>>

\* the table at p is one of the four known tables and both of its sheets have the
\* column Account Number
AccountKeyed(p) ==
    /\ cfg[p].name \in {"Gain Summary", "ScheduleFA", "transaction_details", "transaction_details_by_gain"}
    /\ InSeq("Account Number", cfg[p].colsA) /\ InSeq("Account Number", cfg[p].colsB)

\* all three columns of the composite key are in both sheets of the table at p
AllThree(p) ==
    \A c \in {"Account Number", "Investment Name", "Purchase Date"} :
        InSeq(c, cfg[p].colsA) /\ InSeq(c, cfg[p].colsB)

\* the key of a row by account, by the composite of the three columns, or generic
KeyByPolicy(p, row, keyed) ==
    IF keyed /\ AllThree(p)
    THEN composite_acct_key(row, <<"Account Number", "Investment Name", "Purchase Date">>)
    ELSE IF keyed THEN acct_key(row["Account Number"])
    ELSE [ok |-> TRUE, s |-> row_key(row, common_cols(cfg[p]), 2)]

\* the rows of the two sheets of the table at p that the matching works on
KeptA(p) == StartLoc(cfg[p], <<>>).df_orig.rows

KeptB(p) == StartLoc(cfg[p], <<>>).df_web.rows

\* the buckets of the table at p pair and separate the rows by the key that is
\* by account or composite exactly when keyed holds
MatchedBy(p, keyed) ==
    LET pv == sheets_structured[p].prov
    IN  /\ \A x \in PairsOf(pv.common) \cup PairsOf(pv.diff) :
              /\ KeyByPolicy(p, cfg[p].rowsA[x.a], keyed).ok
              /\ KeyByPolicy(p, cfg[p].rowsA[x.a], keyed) = KeyByPolicy(p, cfg[p].rowsB[x.b], keyed)
        /\ \A x \in PairsOf(pv.only_orig) :
              /\ KeyByPolicy(p, cfg[p].rowsA[x.a], keyed).ok
              /\ \A b \in 1..Len(KeptB(p)) :
                    KeyByPolicy(p, KeptB(p)[b].v, keyed) # KeyByPolicy(p, cfg[p].rowsA[x.a], keyed)
        /\ \A x \in PairsOf(pv.only_web) :
              /\ KeyByPolicy(p, cfg[p].rowsB[x.b], keyed).ok
              /\ \A a \in 1..Len(KeptA(p)) :
                    KeyByPolicy(p, KeptA(p)[a].v, keyed) # KeyByPolicy(p, cfg[p].rowsB[x.b], keyed)

(* C21, as stated: a known table with Account Number in both sheets is matched by
   the composite key when all three columns are in both sheets and by the account
   key otherwise; every other table is matched by the generic row key; both
   sheets' keys are built the same way. *)
C21_AsStated ==
    \A p \in Entries : Reconciled(p) => MatchedBy(p, AccountKeyed(p))

(* C21, amended: that is the policy of the known tables other than Gain Summary;
   Gain Summary is always matched by the generic row key, among the rows left
   after the deduplication on its key columns. *)
C21_KeySelection ==
    \A p \in Entries :
        Reconciled(p) => MatchedBy(p, AccountKeyed(p) /\ cfg[p].name # "Gain Summary")

\* a table matched by the composite key with a matched pair, reconciled
C21_Witness ==
    \E p \in Entries :
        /\ Reconciled(p) /\ AccountKeyed(p) /\ AllThree(p) /\ cfg[p].name # "Gain Summary"
        /\ PairsOf(sheets_structured[p].prov.diff) # {}
        /\ Len(cfg[p].rowsA) + Len(cfg[p].rowsB) = 3

\* the entry of the call configured with the table at p alone
Alone(p) == RefFrom(<<cfg[p]>>, 1, <<>>, <<>>)[1]

\* the table at p failed in a statement after its sheets were read
RaisedLater(p) == sheets_structured[p].error /\ cfg[p].readable

\* the entries recorded stay as they are
EarlierEntriesKept ==
    \A p \in Entries :
        /\ Len(sheets_structured') >= p
        /\ sheets_structured'[p] = sheets_structured[p]

(* C22, as stated: the entry of a table, every field of it, is the entry of the
   call configured with that table alone, whatever the other tables are; and no
   step changes an entry already recorded. *)
C22_AsStated ==
    /\ [](\A p \in Entries : ~RaisedLater(p) => sheets_structured[p] = Alone(p))
    /\ [][EarlierEntriesKept]_vars

(* C22, amended: the four buckets, rows_compared, cells_different and the error
   marker of a table's entry are those of the call configured with that table
   alone; its _main_ws_name may differ with the titles of the sheets made for
   earlier tables; no step changes an entry already recorded. *)
C22_TableIndependence ==
    /\ [](\A p \in Entries : ~RaisedLater(p) => Content(sheets_structured[p]) = Content(Alone(p)))
    /\ [][EarlierEntriesKept]_vars

\* two tables reconciled without failure, rows classified in both, the call done
C22_Witness ==
    /\ pc = "done" /\ Len(sheets_structured) = 2
    /\ \A p \in Entries : Reconciled(p) /\ sheets_structured[p].rows_compared >= 1
    /\ sheets_structured[1].cells_different # sheets_structured[2].cells_different

\* a step of a table's pass classifies a row
RowStep == pc \in {"orig", "web"} /\ loc' # loc

\* a row classified Different counts at least one column and one row; a row
\* classified Common counts nothing
CountsByClass ==
    RowStep =>
        /\ Len(loc'.structured_diff) > Len(loc.structured_diff) =>
              /\ loc'.diff_count >= loc.diff_count + 1
              /\ loc'.rows_compared = loc.rows_compared + 1
        /\ Len(loc'.structured_common) > Len(loc.structured_common) =>
              /\ loc'.diff_count = loc.diff_count
              /\ loc'.rows_compared = loc.rows_compared

(* C23: after every row of a table's pass and in every entry, cells_different is
   at least rows_compared; a row classified Different adds at least one to
   cells_different, and a row classified Common changes neither counter. *)
C23_CountersOrdered ==
    /\ [](/\ loc.diff_count >= loc.rows_compared
          /\ \A p \in Entries :
                sheets_structured[p].cells_different >= sheets_structured[p].rows_compared)
    /\ [][CountsByClass]_vars

\* a table with a row classified Common and a row classified Different, recorded
C23_Witness ==
    \E p \in Entries :
        /\ Reconciled(p)
        /\ Len(sheets_structured[p].prov.common) = 1
        /\ Len(sheets_structured[p].prov.diff) = 1
        /\ sheets_structured[p].rows_compared = 1
        /\ sheets_structured[p].cells_different >= 1

\* some row of the table at p was classified Different or of one sheet alone
HasDifference(p) ==
    \/ sheets_structured[p].prov.diff # <<>>
    \/ sheets_structured[p].prov.only_orig # <<>>
    \/ sheets_structured[p].prov.only_web # <<>>

\* the listing holds the names of the tables with such a row and no other name
ListsDifferences(listing) ==
    /\ \A p \in Entries : InSeq(cfg[p].name, listing) <=> HasDifference(p)
    /\ \A p \in Entries : sheets_structured[p].error => ~InSeq(cfg[p].name, listing)
    /\ \A p \in Entries : common_cols(cfg[p]) = <<>> => ~InSeq(cfg[p].name, listing)
    /\ \A q \in 1..Len(listing) : \E p \in Entries : cfg[p].name = listing[q]

(* C24: the listing of compare_excel_sheets_inline_India over a finished
   comparison, and the listing the compare/sheets endpoint answers with, hold a
   table's name exactly when a row of it was classified Different,
   OnlyInOriginal or OnlyInOther: not when all its rows are Common, not when it
   has no common columns, not when its processing failed. *)
C24_SheetsListing ==
    /\ pc = "done" => ListsDifferences(compare_excel_sheets_inline_India(sheets_structured))
    /\ (pc = "responded" /\ va.endpoint = "compare/sheets" /\ veq.kind = "sheets")
          => ListsDifferences(veq.sheets)

\* the endpoint answered with one of two tables, the other one all Common
C24_Witness ==
    /\ pc = "responded" /\ va.endpoint = "compare/sheets" /\ veq.kind = "sheets"
    /\ Len(veq.sheets) = 1 /\ Len(sheets_structured) = 2
    /\ \E p \in Entries :
          /\ Reconciled(p) /\ ~HasDifference(p)
          /\ sheets_structured[p].prov.common # <<>>

\* the request is answered
Responded == pc = "responded"

\* the endpoint of the request reads sheets_config
ReadsConfig == va.endpoint \notin {"compare/sheets", "compare/sheet/diff"}

\* a request that is no POST is refused before any upload is read and any
\* comparison invoked; a POST without both uploads fails before the comparison;
\* a sheets_config that is absent or no JSON leaves the default configuration
\* to the comparison
AnswersInEveryCase ==
    /\ (Responded /\ va.method # "POST") =>
          /\ veq.status = 400
          /\ vtol.reads = 0 /\ vtol.calls = 0 /\ cfg = <<>>
    /\ (Responded /\ va.method = "POST" /\ va.files < 2) =>
          /\ veq.status = 500 /\ vtol.calls = 0
    /\ Responded => veq.status \in {200, 400, 500}
    /\ (vtol.calls = 1 /\ va.country = "india") =>
          cfg = IF ReadsConfig /\ va.sheets_config = "valid" THEN va.custom ELSE va.default

\* a step of one of the six views
ViewStep ==
    \/ compare_excel_api \/ compare_json_api \/ compare_html_api
    \/ compare_sheets_api \/ compare_sheet_diff_api \/ compare_excel_file_api

\* where a request has arrived, or the comparison has returned or raised, the
\* view goes on to its response: nothing leaves it
ViewGoesOn == pc \in {"request", "done", "raised", "usa"} => ENABLED ViewStep

\* a comparison that raised is answered with status 500, one that returned with
\* status 200
AnswersTheOutcome ==
    /\ (pc = "raised" /\ pc' # pc) => (pc' = "responded" /\ veq'.status = 500)
    /\ (pc = "done" /\ pc' # pc) => (pc' = "responded" /\ veq'.status = 200)

(* C25: each of the six endpoints answers a request that is no POST with status
   400, no upload read and no comparison invoked; it answers a POST during which
   a step raises (a missing upload, a failing comparison) with status 500; no
   exception leaves a view; a sheets_config that is no valid JSON is treated as
   no configuration, the defaults are used and no error is answered for it. *)
C25_EndpointErrors ==
    /\ [](AnswersInEveryCase /\ ViewGoesOn)
    /\ [][AnswersTheOutcome]_vars

\* a POST with a sheets_config that is no JSON was compared under the default
\* configuration and answered with status 200
C25_Witness ==
    /\ Responded /\ va.method = "POST" /\ va.country = "india"
    /\ va.sheets_config = "invalid" /\ ReadsConfig
    /\ veq.status = 200
    /\ Len(sheets_structured) >= 1 /\ cfg = va.default

=============================================================================
